---- MODULE Spec2Model ----
(***************************************************************************)
(* A model of the Handshake-to-FIRRTL lowering pass                        *)
(* (lib/Conversion/HandshakeToFIRRTL/HandshakeToFIRRTL.cpp).               *)
(*                                                                         *)
(* The state is the IR the pass rewrites: the circuit (its modules, each   *)
(* with ports and a body), the block of the top module that the driver     *)
(* walks, the walk position, the pipeline counter, and the diagnostics     *)
(* emitted so far.  One action models one iteration of the driver's loop.  *)
(***************************************************************************)
EXTENDS Integers, Sequences, FiniteSets, TLC

VARIABLES
  func,         \* the handshake.func given to the pass (never changes)
  pc,           \* "start" | "walk" | "done" | "crashed"
  circuit,      \* the FModuleOps of the firrtl.circuit, in block order
  topBody,      \* the operations of the top module's entry block, in order
  walkPos,      \* index in topBody of the operation the loop is at
  pipelineIdx,  \* rewrite()'s local counter of converted pipelines
  errors,       \* the diagnostics emitted, in order
  ub,           \* TRUE once the pass has executed undefined behaviour
  nextInst,     \* number of InstanceOps created so far
  fnIn,         \* input of a helper function applied on its own
  fnOut         \* its result

vars == <<func, pc, circuit, topBody, walkPos, pipelineIdx, errors, ub,
          nextInst, fnIn, fnOut>>

-----------------------------------------------------------------------------
(* Bounds of the model.                                                    *)

\* longest function body (operations before the return) of Spec
MaxOps == 2
\* longest function body of SpecKinds, which draws from every operator kind
MaxKindOps == 1
\* widest integer type given to the type mapping in SpecTypes
MaxWidth == 8
\* most arguments, and most results, of a function given to SpecTop
MaxPorts == 2
\* most clock domains asked of createTopModuleOp in SpecTop
MaxClocks == 2
\* longest function body of SpecChain, which draws from few operator kinds
MaxChainOps == 3
\* most inputs of a merge, mux, control merge or join, and most results of a
\* fork, given to the logic builders in SpecLogic
MaxFan == 3
\* largest data value on a channel in SpecLogic
MaxData == 2

\* IndexType::kInternalStorageBitWidth, "64-bits unsigned integer"
IndexStorageBitWidth == 64

-----------------------------------------------------------------------------
(* Types.  Standard types and FIRRTL types are records tagged by k.        *)

IntegerType(sign, w) == [k |-> "Integer", sign |-> sign, w |-> w]
IndexType == [k |-> "Index"]
NoneType == [k |-> "None"]
FloatType == [k |-> "F32"]

\* FIRRTLType(nullptr), and a null mlir::Type
NullType == [k |-> "null"]
UIntType(w) == [k |-> "UInt", w |-> w]
SIntType(w) == [k |-> "SInt", w |-> w]
ClockType == [k |-> "Clock"]
BundleElement(n, t) == [name |-> n, type |-> t]
BundleTypeGet(elements) == [k |-> "Bundle", elements |-> elements]

IsPassive(t) ==
  CASE t.k = "Flip" -> FALSE
    [] t.k = "Bundle" -> \A i \in DOMAIN t.elements : t.elements[i].type.k # "Flip"
    [] OTHER -> TRUE

\* FlipType::get: flip(flip(x)) is x, and the flip of a bundle that is not
\* passive is pushed into its elements (the instance types of the test).
FlipTypeGet(t) ==
  CASE t.k = "Flip" -> t.of
    [] t.k = "Bundle" /\ ~IsPassive(t) ->
         BundleTypeGet([i \in DOMAIN t.elements |->
            BundleElement(t.elements[i].name,
                          IF t.elements[i].type.k = "Flip"
                            THEN t.elements[i].type.of
                            ELSE [k |-> "Flip", of |-> t.elements[i].type])])
    [] OTHER -> [k |-> "Flip", of |-> t]

I1 == IntegerType("Signless", 1)
I32 == IntegerType("Signless", 32)

buildBundleType(dataType, isFlip) ==
  LET signalType == UIntType(1)
      validReady ==
        IF isFlip
          THEN << BundleElement("valid", FlipTypeGet(signalType)),
                  BundleElement("ready", signalType) >>
          ELSE << BundleElement("valid", signalType),
                  BundleElement("ready", FlipTypeGet(signalType)) >>
      data ==
        IF dataType # NullType
          THEN << BundleElement("data", IF isFlip THEN FlipTypeGet(dataType)
                                                  ELSE dataType) >>
          ELSE << >>
  IN  BundleTypeGet(validReady \o data)

\* getBundleType with the signless integers mapped to signed ones
getBundleTypeSigned(type, isFlip) ==
  IF type.k = "Bundle" THEN type
  ELSE CASE type.k = "Integer" ->
              (CASE type.sign = "Signed" ->
                      buildBundleType(SIntType(type.w), isFlip)
                 [] type.sign = "Unsigned" ->
                      buildBundleType(UIntType(type.w), isFlip)
                 [] type.sign = "Signless" ->
                      buildBundleType(SIntType(type.w), isFlip))
         [] type.k = "Index" ->
              buildBundleType(UIntType(IndexStorageBitWidth), isFlip)
         [] type.k = "None" -> buildBundleType(NullType, isFlip)
         [] OTHER -> NullType

getBundleType(type, isFlip) ==
  IF type.k = "Bundle" THEN type
  ELSE CASE type.k = "Integer" ->
              (CASE type.sign = "Signed" ->
                      buildBundleType(SIntType(type.w), isFlip)
                 [] type.sign = "Unsigned" ->
                      buildBundleType(UIntType(type.w), isFlip)
                 [] type.sign = "Signless" ->
                      buildBundleType(UIntType(type.w), isFlip))
         [] type.k = "Index" ->
              buildBundleType(UIntType(IndexStorageBitWidth), isFlip)
         [] type.k = "None" -> buildBundleType(NullType, isFlip)
         [] OTHER -> NullType

\* The element of a bundle type named n, or NullType when it has none.
getElement(t, n) ==
  IF t.k = "Bundle" /\ \E i \in DOMAIN t.elements : t.elements[i].name = n
    THEN t.elements[CHOOSE i \in DOMAIN t.elements : t.elements[i].name = n].type
    ELSE NullType

-----------------------------------------------------------------------------
(* Sequences.                                                              *)

Range(s) == {s[i] : i \in DOMAIN s}

RECURSIVE Concat(_)
\* the concatenation of a sequence of sequences
Concat(ss) == IF ss = << >> THEN << >> ELSE Head(ss) \o Concat(Tail(ss))

\* every sequence over S of length at most n
SeqsUpTo(S, n) == UNION {[1..l -> S] : l \in 0..n}

-----------------------------------------------------------------------------
(* Values and operations of the IR.                                        *)

\* an SSA value: v is "arg" (block argument i of the top module), "res"
\* (result j of the original operation with id i), "sub" (the SubfieldOp of
\* port j of instance i), "inst" (instance i) or "garbage" (a Value read
\* outside the bounds of a vector)
Val(v, i, j) == [v |-> v, i |-> i, j |-> j]
GarbageVal == Val("garbage", 0, 0)

\* an operation; the fields an operation has no use for keep these values
NoOp ==
  [dialect |-> "", name |-> "", id |-> 0, operands |-> << >>,
   resTypes |-> << >>, pred |-> "", control |-> "absent", slots |-> 0,
   seq |-> FALSE, value |-> 0, region |-> << >>,
   module |-> "", inst |-> 0, port |-> 0, type |-> NullType,
   original |-> FALSE, erased |-> FALSE, converted |-> 0]

NumOperands(op) == Len(op.operands)
NumResults(op) == Len(op.resTypes)

\* getSubModuleName without the suffix of a sequential buffer
getSubModuleNameNoSeq(oldOp) ==
  LET base == oldOp.name \o "_" \o ToString(NumOperands(oldOp)) \o "ins_"
                \o ToString(NumResults(oldOp)) \o "outs"
      cmp == IF oldOp.name = "std.cmpi" THEN "_" \o oldOp.pred ELSE ""
      buf == IF oldOp.name = "handshake.buffer"
               THEN "_" \o ToString(oldOp.slots) \o "slots"
                      \o ""
               ELSE ""
      ctrl == IF oldOp.control = "true" THEN "_ctrl" ELSE ""
  IN  base \o cmp \o buf \o ctrl

\* getSubModuleName without the predicate of a compare
getSubModuleNameNoPred(oldOp) ==
  LET base == oldOp.name \o "_" \o ToString(NumOperands(oldOp)) \o "ins_"
                \o ToString(NumResults(oldOp)) \o "outs"
      cmp == IF oldOp.name = "std.cmpi" THEN "" ELSE ""
      buf == IF oldOp.name = "handshake.buffer"
               THEN "_" \o ToString(oldOp.slots) \o "slots"
                      \o (IF oldOp.seq THEN "_seq" ELSE "")
               ELSE ""
      ctrl == IF oldOp.control = "true" THEN "_ctrl" ELSE ""
  IN  base \o cmp \o buf \o ctrl

\* stringifyEnum(CmpIPredicate) is the predicate's keyword, kept in op.pred
getSubModuleName(oldOp) ==
  LET base == oldOp.name \o "_" \o ToString(NumOperands(oldOp)) \o "ins_"
                \o ToString(NumResults(oldOp)) \o "outs"
      cmp == IF oldOp.name = "std.cmpi" THEN "_" \o oldOp.pred ELSE ""
      buf == IF oldOp.name = "handshake.buffer"
               THEN "_" \o ToString(oldOp.slots) \o "slots"
                      \o (IF oldOp.seq THEN "_seq" ELSE "")
               ELSE ""
      ctrl == IF oldOp.control = "true" THEN "_ctrl" ELSE ""
  IN  base \o cmp \o buf \o ctrl

\* the name of a pipeline whatever the index
getPipelineNameFirst(oldOp, idx) == oldOp.name \o "_" \o ToString(0)

\* the name convertPipelineOp gives: the mnemonic and the pipeline index
getPipelineName(oldOp, idx) == oldOp.name \o "_" \o ToString(idx)

\* isControl() of branch, conditional branch, fork and lazy fork, and the
\* "control" attribute the control merge reads
isControl(oldOp) == oldOp.control = "true"

-----------------------------------------------------------------------------
(* Expressions of a sub-module body.  A node is a record of one shape:     *)
(* op is "subfield" (field `field` of port `port`), "port" (the port       *)
(* itself), "constant" (val), "reg" / "wire" (named `field`), a primitive  *)
(* ("and", "add", ...) over args, "value" (a value of an inlined pipeline  *)
(* block), "null" (Value(nullptr)) or "garbage".                           *)

Node(op, args, port, field, val, type) ==
  [op |-> op, args |-> args, port |-> port, field |-> field, val |-> val,
   type |-> type]
SubfieldNode(port, field, type) == Node("subfield", << >>, port, field, 0, type)
PortNode(port, type) == Node("port", << >>, port, "", 0, type)
Prim(op, type, a, b) == Node(op, <<a, b>>, 0, "", 0, type)
Prim1(op, type, a) == Node(op, <<a>>, 0, "", 0, type)
GarbageNode == Node("garbage", << >>, 0, "", 0, NullType)
NullNode == Node("null", << >>, 0, "", 0, NullType)

\* a ConnectOp under the WhenOps of `path`, outermost first: each step is
\* the condition and TRUE for the then region, FALSE for the else region
Connect(dst, src, path) == [dst |-> dst, src |-> src, path |-> path]
Arm(cond, pol) == [cond |-> cond, pol |-> pol]

createConstantOp(opType, value) ==
  IF opType.k \in {"UInt", "SInt"}
    THEN Node("constant", << >>, 0, "", value, opType)
    ELSE NullNode

-----------------------------------------------------------------------------
(* Modules of the circuit.                                                 *)

ModulePort(n, t) == [name |-> n, type |-> t]

\* an FModuleOp: kind is "top", "sub" (made for a std or handshake
\* operation) or "pipeline"; forOp is the id of the operation it was made
\* for; subfields are its SubfieldOps, body its ConnectOps in order
FModuleOp(name, ports, kind, forOp) ==
  [name |-> name, ports |-> ports, kind |-> kind, forOp |-> forOp,
   subfields |-> << >>, body |-> << >>, regs |-> << >>, wires |-> << >>,
   nodes |-> << >>, blocks |-> 1]

Diag(onOp, msg) == [on |-> onOp, msg |-> msg]
UnsupportedType == "Unsupported data type."
UnsupportedOp == "Usupported operation type."

\* the ports createTopModuleOp and createSubModuleOp make of a list of
\* types, named arg<first>, arg<first+1>, ...
BundlePorts(types, first, isFlip) ==
  [i \in DOMAIN types |->
     ModulePort("arg" \o ToString(first + i - 1), getBundleType(types[i], isFlip))]

\* ClockPorts with the names numbered even for a single clock domain
ClockPortsNumbered(numClocks) ==
  Concat([i \in 1..numClocks |->
    << ModulePort("clock" \o ToString(i - 1), ClockType),
       ModulePort("reset" \o ToString(i - 1), UIntType(1)) >>])

ClockPorts(numClocks) ==
  IF numClocks = 1
    THEN << ModulePort("clock", ClockType), ModulePort("reset", UIntType(1)) >>
    ELSE Concat([i \in 1..numClocks |->
           << ModulePort("clock" \o ToString(i - 1), ClockType),
              ModulePort("reset" \o ToString(i - 1), UIntType(1)) >>])

\* one diagnostic on operation onOp for each type that has no bundle type
TypeErrors(types, onOp) ==
  Concat([i \in DOMAIN types |->
     IF getBundleType(types[i], FALSE) = NullType
       THEN << Diag(onOp, UnsupportedType) >> ELSE << >>])

createTopModuleOp(funcOp, numClocks) ==
  LET ins == BundlePorts(funcOp.argTypes, 0, FALSE)
      outs == BundlePorts(funcOp.resTypes, Len(funcOp.argTypes), TRUE)
  IN  [module |-> FModuleOp(funcOp.name, ins \o outs \o ClockPorts(numClocks),
                            "top", 0),
       errors |-> TypeErrors(funcOp.argTypes, 0) \o TypeErrors(funcOp.resTypes, 0)]

\* checkSubModuleOp: the first module of the circuit, the top module
\* included, whose name is the operation's signature; 0 when there is none
checkSubModuleOp(modules, oldOp) ==
  LET hits == {i \in DOMAIN modules : modules[i].name = getSubModuleName(oldOp)}
  IN  IF hits = {} THEN 0 ELSE CHOOSE i \in hits : \A j \in hits : i <= j

\* createSubModuleOp: operandTypes are the types the operands have now.
\* Reading a null operand type (dyn_cast on a null Type) is undefined.
createSubModuleOp(oldOp, operandTypes, hasClock, name) ==
  LET ins == BundlePorts(operandTypes, 0, FALSE)
      outs == BundlePorts(oldOp.resTypes, Len(operandTypes), TRUE)
      clk == IF hasClock THEN ClockPorts(1) ELSE << >>
      kind == IF oldOp.name = "staticlogic.pipeline" THEN "pipeline" ELSE "sub"
  IN  [module |-> FModuleOp(name, ins \o outs \o clk, kind, oldOp.id),
       errors |-> TypeErrors(operandTypes, oldOp.id)
                    \o TypeErrors(oldOp.resTypes, oldOp.id),
       ub |-> \E i \in DOMAIN operandTypes : operandTypes[i] = NullType]

-----------------------------------------------------------------------------
(* Subfields and the logic builders.  A builder gives the ConnectOps it    *)
(* creates (stmts), the SubfieldOps it erases (erase) and the Values it    *)
(* reads from the port list (reads): reading past the end of a vector is   *)
(* undefined and yields GarbageNode.                                       *)

\* extractSubfields with an empty entry for clock and reset
extractSubfieldsNoClock(subModuleOp) ==
  [p \in DOMAIN subModuleOp.ports |->
     LET t == subModuleOp.ports[p].type
     IN  CASE t.k = "Bundle" ->
                [e \in DOMAIN t.elements |->
                   SubfieldNode(p - 1, t.elements[e].name, t.elements[e].type)]
           [] t.k = "Clock" \/ (t.k = "UInt" /\ t.w = 1) -> << >>
           [] OTHER -> << >>]

extractSubfields(subModuleOp) ==
  [p \in DOMAIN subModuleOp.ports |->
     LET t == subModuleOp.ports[p].type
     IN  CASE t.k = "Bundle" ->
                [e \in DOMAIN t.elements |->
                   SubfieldNode(p - 1, t.elements[e].name, t.elements[e].type)]
           [] t.k = "Clock" \/ (t.k = "UInt" /\ t.w = 1) -> << PortNode(p - 1, t) >>
           [] OTHER -> << >>]

\* dyn_cast on a null port type, or getWidthOrSentinel on a failed cast
extractSubfieldsUB(subModuleOp) ==
  \E p \in DOMAIN subModuleOp.ports :
     subModuleOp.ports[p].type.k \notin {"Bundle", "Clock", "UInt"}

\* portList[i] and subfields[j], counted from 0 as in the source
PortAt(portList, i) == IF i + 1 \in DOMAIN portList THEN portList[i + 1] ELSE << >>
At(subfields, j) == IF j + 1 \in DOMAIN subfields THEN subfields[j + 1] ELSE GarbageNode
PL(portList, i, j) == At(PortAt(portList, i), j)

Built(stmts, erase, reads) == [stmts |-> stmts, erase |-> erase, reads |-> reads]

Signal == UIntType(1)

\* buildBinaryLogic with the ready of the second operand not gated by valid
buildBinaryLogicUngated(primOp, portList) ==
  LET arg0Valid == PL(portList, 0, 0)
      arg0Ready == PL(portList, 0, 1)
      arg0Data == PL(portList, 0, 2)
      arg1Valid == PL(portList, 1, 0)
      arg1Ready == PL(portList, 1, 1)
      arg1Data == PL(portList, 1, 2)
      resultValid == PL(portList, 2, 0)
      resultReady == PL(portList, 2, 1)
      resultData == PL(portList, 2, 2)
      resultDataOp == Prim(primOp, arg0Data.type, arg0Data, arg1Data)
      resultValidOp == Prim("and", arg0Valid.type, arg0Valid, arg1Valid)
      argReadyOp == Prim("and", resultReady.type, resultReady, resultValidOp)
  IN  Built(<< Connect(resultData, resultDataOp, << >>),
               Connect(resultValid, resultValidOp, << >>),
               Connect(arg0Ready, argReadyOp, << >>),
               Connect(arg1Ready, resultReady, << >>) >>,
            {},
            {arg0Valid, arg0Ready, arg0Data, arg1Valid, arg1Ready, arg1Data,
             resultValid, resultReady, resultData})

buildBinaryLogic(primOp, portList) ==
  LET arg0Valid == PL(portList, 0, 0)
      arg0Ready == PL(portList, 0, 1)
      arg0Data == PL(portList, 0, 2)
      arg1Valid == PL(portList, 1, 0)
      arg1Ready == PL(portList, 1, 1)
      arg1Data == PL(portList, 1, 2)
      resultValid == PL(portList, 2, 0)
      resultReady == PL(portList, 2, 1)
      resultData == PL(portList, 2, 2)
      resultDataOp == Prim(primOp, arg0Data.type, arg0Data, arg1Data)
      resultValidOp == Prim("and", arg0Valid.type, arg0Valid, arg1Valid)
      argReadyOp == Prim("and", resultReady.type, resultReady, resultValidOp)
  IN  Built(<< Connect(resultData, resultDataOp, << >>),
               Connect(resultValid, resultValidOp, << >>),
               Connect(arg0Ready, argReadyOp, << >>),
               Connect(arg1Ready, argReadyOp, << >>) >>,
            {},
            {arg0Valid, arg0Ready, arg0Data, arg1Valid, arg1Ready, arg1Data,
             resultValid, resultReady, resultData})

\* a sink that is ready only for a valid token, and so keeps the read of
\* arg.valid
buildSinkLogicWhenValid(portList) ==
  LET argValid == PL(portList, 0, 0)
      argReady == PL(portList, 0, 1)
      argData == PL(portList, 0, 2)
      highSignal == createConstantOp(argValid.type, 1)
  IN  Built(<< Connect(argReady, argValid, << >>) >>,
            {argData},
            {argValid, argReady, argData})

buildSinkLogic(portList) ==
  LET argValid == PL(portList, 0, 0)
      argReady == PL(portList, 0, 1)
      argData == PL(portList, 0, 2)
      highSignal == createConstantOp(argValid.type, 1)
  IN  Built(<< Connect(argReady, highSignal, << >>) >>,
            {argValid, argData},
            {argValid, argReady, argData})

RECURSIVE AndChain(_, _, _, _, _)
\* the loop "*tmp = AndPrimOp(portList[i][field], *tmp)" for i = from..to-1
AndChain(portList, field, from, to, tmp) ==
  IF from >= to THEN tmp
  ELSE AndChain(portList, field, from + 1, to,
                Prim("and", PL(portList, from, field).type,
                     PL(portList, from, field), tmp))

\* buildJoinLogic with the loop over the operands started one too late
buildJoinLogicSkipping(portList) ==
  LET size == Len(portList)
      resultValid == PL(portList, size - 1, 0)
      resultReady == PL(portList, size - 1, 1)
      tmpValid == AndChain(portList, 0, 2, size - 1, PL(portList, 0, 0))
      argReadyOp == Prim("and", resultReady.type, resultReady, tmpValid)
  IN  Built(<< Connect(resultValid, tmpValid, << >>) >>
              \o [i \in 1..(size - 1) |->
                    Connect(PL(portList, i - 1, 1), argReadyOp, << >>)],
            {},
            {resultValid, resultReady}
              \cup {PL(portList, i, 0) : i \in 0..(size - 2)}
              \cup {PL(portList, i, 1) : i \in 0..(size - 2)})

buildJoinLogic(portList) ==
  LET size == Len(portList)
      resultValid == PL(portList, size - 1, 0)
      resultReady == PL(portList, size - 1, 1)
      tmpValid == AndChain(portList, 0, 1, size - 1, PL(portList, 0, 0))
      argReadyOp == Prim("and", resultReady.type, resultReady, tmpValid)
  IN  Built(<< Connect(resultValid, tmpValid, << >>) >>
              \o [i \in 1..(size - 1) |->
                    Connect(PL(portList, i - 1, 1), argReadyOp, << >>)],
            {},
            {resultValid, resultReady}
              \cup {PL(portList, i, 0) : i \in 0..(size - 2)}
              \cup {PL(portList, i, 1) : i \in 0..(size - 2)})

\* the arms a chain of WhenOps puts the i-th branch under: the else
\* regions of the conditions before it, then its own then region
ChainPath(conds, i) ==
  [j \in 1..i |-> Arm(conds[j], j = i)]

buildMuxLogic(portList) ==
  LET selectValid == PL(portList, 0, 0)
      selectReady == PL(portList, 0, 1)
      selectData == PL(portList, 0, 2)
      selectType == selectData.type
      e == Len(portList) - 1
      resultValid == PL(portList, e, 0)
      resultReady == PL(portList, e, 1)
      resultData == PL(portList, e, 2)
      \* the loop runs over the ports i = 1..e-1 and compares the selector
      \* with the constant i
      conds == [i \in 1..(e - 1) |->
                  Prim("eq", Signal, selectData, createConstantOp(selectType, i))]
      arm(i) ==
        LET argValid == PL(portList, i, 0)
            argReady == PL(portList, i, 1)
            argData == PL(portList, i, 2)
            path == << Arm(selectValid, TRUE) >> \o ChainPath(conds, i)
        IN  << Connect(resultValid, argValid, path),
               Connect(resultData, argData, path),
               Connect(argReady, resultReady, path),
               Connect(selectReady,
                       Prim("and", argValid.type, argValid, resultReady), path) >>
  IN  Built(Concat([i \in 1..(e - 1) |-> arm(i)]),
            {},
            {selectValid, selectReady, selectData, resultValid, resultReady,
             resultData}
              \cup UNION {{PL(portList, i, 0), PL(portList, i, 1), PL(portList, i, 2)} :
                            i \in 1..(e - 1)})

\* buildMergeLogic with every WhenOp at the top level instead of in the else
\* region of the one before
buildMergeLogicUnchained(portList) ==
  LET e == Len(portList) - 1
      resultValid == PL(portList, e, 0)
      resultReady == PL(portList, e, 1)
      resultData == PL(portList, e, 2)
      conds == [i \in 1..e |-> PL(portList, i - 1, 0)]
      arm(i) ==
        LET argValid == PL(portList, i - 1, 0)
            argReady == PL(portList, i - 1, 1)
            argData == PL(portList, i - 1, 2)
            path == << Arm(conds[i], TRUE) >>
        IN  << Connect(resultData, argData, path),
               Connect(resultValid, argValid, path),
               Connect(argReady, resultReady, path) >>
  IN  Built(Concat([i \in 1..e |-> arm(i)]),
            {},
            {resultValid, resultReady, resultData}
              \cup UNION {{PL(portList, i, 0), PL(portList, i, 1), PL(portList, i, 2)} :
                            i \in 0..(e - 1)})

buildMergeLogic(portList) ==
  LET e == Len(portList) - 1
      resultValid == PL(portList, e, 0)
      resultReady == PL(portList, e, 1)
      resultData == PL(portList, e, 2)
      conds == [i \in 1..e |-> PL(portList, i - 1, 0)]
      arm(i) ==
        LET argValid == PL(portList, i - 1, 0)
            argReady == PL(portList, i - 1, 1)
            argData == PL(portList, i - 1, 2)
            path == ChainPath(conds, i)
        IN  << Connect(resultData, argData, path),
               Connect(resultValid, argValid, path),
               Connect(argReady, resultReady, path) >>
  IN  Built(Concat([i \in 1..e |-> arm(i)]),
            {},
            {resultValid, resultReady, resultData}
              \cup UNION {{PL(portList, i, 0), PL(portList, i, 1), PL(portList, i, 2)} :
                            i \in 0..(e - 1)})

\* buildControlMergeLogic with the inputs counted from 1 on the index output
buildControlMergeLogicFromOne(oldOp, portList) ==
  LET numPorts == Len(portList)
      resultValid == PL(portList, numPorts - 2, 0)
      resultReady == PL(portList, numPorts - 2, 1)
      controlValid == PL(portList, numPorts - 1, 0)
      controlReady == PL(portList, numPorts - 1, 1)
      controlData == PL(portList, numPorts - 1, 2)
      controlType == FlipTypeGet(controlData.type)
      argReadyOp == Prim("and", resultReady.type, resultReady, controlReady)
      e == numPorts - 2
      conds == [i \in 1..e |-> PL(portList, i - 1, 0)]
      arm(i) ==
        LET argValid == PL(portList, i - 1, 0)
            argReady == PL(portList, i - 1, 1)
            path == ChainPath(conds, i)
        IN  << Connect(controlData, createConstantOp(controlType, i), path),
               Connect(controlValid, argValid, path),
               Connect(resultValid, argValid, path),
               Connect(argReady, argReadyOp, path) >>
            \o (IF ~isControl(oldOp)
                  THEN << Connect(PL(portList, numPorts - 2, 2),
                                  PL(portList, i - 1, 2), path) >>
                  ELSE << >>)
  IN  Built(Concat([i \in 1..e |-> arm(i)]),
            {},
            {resultValid, resultReady, controlValid, controlReady, controlData}
              \cup UNION {{PL(portList, i, 0), PL(portList, i, 1)} : i \in 0..(e - 1)}
              \cup (IF ~isControl(oldOp) /\ e >= 1
                      THEN {PL(portList, numPorts - 2, 2)}
                             \cup {PL(portList, i, 2) : i \in 0..(e - 1)}
                      ELSE {}))

buildControlMergeLogic(oldOp, portList) ==
  LET numPorts == Len(portList)
      resultValid == PL(portList, numPorts - 2, 0)
      resultReady == PL(portList, numPorts - 2, 1)
      controlValid == PL(portList, numPorts - 1, 0)
      controlReady == PL(portList, numPorts - 1, 1)
      controlData == PL(portList, numPorts - 1, 2)
      controlType == FlipTypeGet(controlData.type)
      argReadyOp == Prim("and", resultReady.type, resultReady, controlReady)
      e == numPorts - 2
      conds == [i \in 1..e |-> PL(portList, i - 1, 0)]
      arm(i) ==
        LET argValid == PL(portList, i - 1, 0)
            argReady == PL(portList, i - 1, 1)
            path == ChainPath(conds, i)
        IN  << Connect(controlData, createConstantOp(controlType, i - 1), path),
               Connect(controlValid, argValid, path),
               Connect(resultValid, argValid, path),
               Connect(argReady, argReadyOp, path) >>
            \o (IF ~isControl(oldOp)
                  THEN << Connect(PL(portList, numPorts - 2, 2),
                                  PL(portList, i - 1, 2), path) >>
                  ELSE << >>)
  IN  Built(Concat([i \in 1..e |-> arm(i)]),
            {},
            {resultValid, resultReady, controlValid, controlReady, controlData}
              \cup UNION {{PL(portList, i, 0), PL(portList, i, 1)} : i \in 0..(e - 1)}
              \cup (IF ~isControl(oldOp) /\ e >= 1
                      THEN {PL(portList, numPorts - 2, 2)}
                             \cup {PL(portList, i, 2) : i \in 0..(e - 1)}
                      ELSE {}))

\* buildBranchLogic that never connects the data
buildBranchLogicNoData(oldOp, portList) ==
  LET argValid == PL(portList, 0, 0)
      argReady == PL(portList, 0, 1)
      resultValid == PL(portList, 1, 0)
      resultReady == PL(portList, 1, 1)
      data == IF FALSE
                THEN << Connect(PL(portList, 1, 2), PL(portList, 0, 2), << >>) >>
                ELSE << >>
  IN  Built(<< Connect(resultValid, argValid, << >>),
               Connect(argReady, resultReady, << >>) >> \o data,
            {},
            {argValid, argReady, resultValid, resultReady}
              \cup (IF ~isControl(oldOp)
                      THEN {PL(portList, 0, 2), PL(portList, 1, 2)} ELSE {}))

buildBranchLogic(oldOp, portList) ==
  LET argValid == PL(portList, 0, 0)
      argReady == PL(portList, 0, 1)
      resultValid == PL(portList, 1, 0)
      resultReady == PL(portList, 1, 1)
      data == IF ~isControl(oldOp)
                THEN << Connect(PL(portList, 1, 2), PL(portList, 0, 2), << >>) >>
                ELSE << >>
  IN  Built(<< Connect(resultValid, argValid, << >>),
               Connect(argReady, resultReady, << >>) >> \o data,
            {},
            {argValid, argReady, resultValid, resultReady}
              \cup (IF ~isControl(oldOp)
                      THEN {PL(portList, 0, 2), PL(portList, 1, 2)} ELSE {}))

\* buildConditionalBranchLogic with the true selector routed to result 1
buildConditionalBranchLogicSwapped(oldOp, portList) ==
  LET controlValid == PL(portList, 0, 0)
      controlReady == PL(portList, 0, 1)
      controlData == PL(portList, 0, 2)
      argValid == PL(portList, 1, 0)
      argReady == PL(portList, 1, 1)
      arm(k, pol) ==
        LET resultValid == PL(portList, 2 + k, 0)
            resultReady == PL(portList, 2 + k, 1)
            path == << Arm(controlValid, TRUE), Arm(controlData, pol) >>
        IN  << Connect(resultValid, argValid, path),
               Connect(argReady, resultReady, path) >>
            \o (IF ~isControl(oldOp)
                  THEN << Connect(PL(portList, 2 + k, 2), PL(portList, 1, 2), path) >>
                  ELSE << >>)
            \o << Connect(controlReady,
                          Prim("and", argValid.type, argValid, resultReady),
                          path) >>
  IN  Built(arm(1, TRUE) \o arm(0, FALSE),
            {},
            {controlValid, controlReady, controlData, argValid, argReady,
             PL(portList, 2, 0), PL(portList, 2, 1), PL(portList, 3, 0),
             PL(portList, 3, 1)}
              \cup (IF ~isControl(oldOp)
                      THEN {PL(portList, 1, 2), PL(portList, 2, 2), PL(portList, 3, 2)}
                      ELSE {}))

buildConditionalBranchLogic(oldOp, portList) ==
  LET controlValid == PL(portList, 0, 0)
      controlReady == PL(portList, 0, 1)
      controlData == PL(portList, 0, 2)
      argValid == PL(portList, 1, 0)
      argReady == PL(portList, 1, 1)
      arm(k, pol) ==
        LET resultValid == PL(portList, 2 + k, 0)
            resultReady == PL(portList, 2 + k, 1)
            path == << Arm(controlValid, TRUE), Arm(controlData, pol) >>
        IN  << Connect(resultValid, argValid, path),
               Connect(argReady, resultReady, path) >>
            \o (IF ~isControl(oldOp)
                  THEN << Connect(PL(portList, 2 + k, 2), PL(portList, 1, 2), path) >>
                  ELSE << >>)
            \o << Connect(controlReady,
                          Prim("and", argValid.type, argValid, resultReady),
                          path) >>
  IN  Built(arm(0, TRUE) \o arm(1, FALSE),
            {},
            {controlValid, controlReady, controlData, argValid, argReady,
             PL(portList, 2, 0), PL(portList, 2, 1), PL(portList, 3, 0),
             PL(portList, 3, 1)}
              \cup (IF ~isControl(oldOp)
                      THEN {PL(portList, 1, 2), PL(portList, 2, 2), PL(portList, 3, 2)}
                      ELSE {}))

buildLazyForkLogic(oldOp, portList) ==
  LET size == Len(portList)
      argValid == PL(portList, 0, 0)
      argReady == PL(portList, 0, 1)
      tmpReady == AndChain(portList, 1, 2, size, PL(portList, 1, 1))
      resultValidOp == Prim("and", argValid.type, argValid, tmpReady)
      out(i) ==
        << Connect(PL(portList, i, 0), resultValidOp, << >>) >>
        \o (IF ~isControl(oldOp)
              THEN << Connect(PL(portList, i, 2), PL(portList, 0, 2), << >>) >>
              ELSE << >>)
  IN  Built(<< Connect(argReady, tmpReady, << >>) >>
              \o Concat([i \in 1..(size - 1) |-> out(i)]),
            {},
            {argValid, argReady, PL(portList, 1, 1)}
              \cup UNION {{PL(portList, i, 0), PL(portList, i, 1)} : i \in 1..(size - 1)}
              \cup (IF ~isControl(oldOp) /\ size >= 2
                      THEN {PL(portList, 0, 2)}
                             \cup {PL(portList, i, 2) : i \in 1..(size - 1)}
                      ELSE {}))

\* an eager fork without its registers: each result is valid as soon as the
\* operand is
buildForkLogicEager(oldOp, portList) ==
  LET lazy == buildLazyForkLogic(oldOp, portList)
  IN  [lazy EXCEPT !.stmts =
         [i \in DOMAIN lazy.stmts |->
            IF lazy.stmts[i].dst.field = "valid"
              THEN Connect(lazy.stmts[i].dst, PL(portList, 0, 0), << >>)
              ELSE lazy.stmts[i]]]

\* buildForkLogic repeats buildLazyForkLogic line by line
buildForkLogic(oldOp, portList) == buildLazyForkLogic(oldOp, portList)

buildConstantLogic(oldOp, portList) ==
  LET e == Len(portList) - 1
      controlValid == PL(portList, 0, 0)
      controlReady == PL(portList, 0, 1)
      resultValid == PL(portList, e, 0)
      resultReady == PL(portList, e, 1)
      resultData == PL(portList, e, 2)
      constantType == FlipTypeGet(resultData.type)
  IN  Built(<< Connect(resultValid, controlValid, << >>),
               Connect(controlReady, resultReady, << >>),
               Connect(resultData, createConstantOp(constantType, oldOp.value),
                       << >>) >>,
            {},
            {controlValid, controlReady, resultValid, resultReady, resultData})

buildBufferLogic(oldOp, portList) ==
  Built(<< >>, {},
        {PL(portList, 0, 0), PL(portList, 0, 1), PL(portList, 1, 0),
         PL(portList, 1, 1), PL(portList, 2, 0), PL(portList, 3, 0)})

-----------------------------------------------------------------------------
(* The dispatch of rewrite(): which logic builder an operation gets.       *)

BinaryPrim(oldOp) ==
  CASE oldOp.name = "std.addi" -> "add"
    [] oldOp.name = "std.subi" -> "sub"
    [] oldOp.name = "std.muli" -> "mul"
    [] oldOp.name = "std.and" -> "and"
    [] oldOp.name = "std.or" -> "or"
    [] oldOp.name = "std.xor" -> "xor"
    [] oldOp.name = "std.cmpi" /\ oldOp.pred = "eq" -> "eq"
    [] oldOp.name = "std.cmpi" /\ oldOp.pred = "ne" -> "neq"
    [] oldOp.name = "std.cmpi" /\ oldOp.pred = "slt" -> "lt"
    [] oldOp.name = "std.cmpi" /\ oldOp.pred = "sle" -> "leq"
    [] oldOp.name = "std.cmpi" /\ oldOp.pred = "sgt" -> "gt"
    [] oldOp.name = "std.cmpi" /\ oldOp.pred = "sge" -> "geq"
    [] oldOp.name = "std.shift_left" -> "dshl"
    [] oldOp.name = "std.shift_right_signed" -> "dshr"
    [] OTHER -> ""

HandshakeBuilders ==
  {"handshake.sink", "handshake.join", "handshake.mux", "handshake.merge",
   "handshake.control_merge", "handshake.branch",
   "handshake.conditional_branch", "handshake.fork", "handshake.lazy_fork",
   "handshake.constant", "handshake.buffer"}

\* "builder": a logic builder ran; "none": the compare's switch had no case
\* for the predicate, so nothing ran and nothing was reported; "else": the
\* last else, which calls emitError on the null BufferOp handle in scope
DispatchKind(oldOp) ==
  CASE BinaryPrim(oldOp) # "" -> "builder"
    [] oldOp.name = "std.cmpi" -> "none"
    [] oldOp.name \in HandshakeBuilders -> "builder"
    [] OTHER -> "else"

BuildLogic(oldOp, portList) ==
  CASE BinaryPrim(oldOp) # "" -> buildBinaryLogic(BinaryPrim(oldOp), portList)
    [] oldOp.name = "handshake.sink" -> buildSinkLogic(portList)
    [] oldOp.name = "handshake.join" -> buildJoinLogic(portList)
    [] oldOp.name = "handshake.mux" -> buildMuxLogic(portList)
    [] oldOp.name = "handshake.merge" -> buildMergeLogic(portList)
    [] oldOp.name = "handshake.control_merge" ->
         buildControlMergeLogic(oldOp, portList)
    [] oldOp.name = "handshake.branch" -> buildBranchLogic(oldOp, portList)
    [] oldOp.name = "handshake.conditional_branch" ->
         buildConditionalBranchLogic(oldOp, portList)
    [] oldOp.name = "handshake.fork" -> buildForkLogic(oldOp, portList)
    [] oldOp.name = "handshake.lazy_fork" -> buildLazyForkLogic(oldOp, portList)
    [] oldOp.name = "handshake.constant" -> buildConstantLogic(oldOp, portList)
    [] oldOp.name = "handshake.buffer" -> buildBufferLogic(oldOp, portList)
    [] OTHER -> Built(<< >>, {}, {})

\* the SubfieldOps extractSubfields created in the module, those of the
\* set `erase` marked erased
LiveSubfields(subModuleOp, portList, erase) ==
  Concat([i \in DOMAIN portList |->
            IF subModuleOp.ports[i].type.k = "Bundle"
              THEN [j \in DOMAIN portList[i] |->
                      [node |-> portList[i][j],
                       erased |-> portList[i][j] \in erase]]
              ELSE << >>])

\* the sub-module once the dispatch has run on it
Dispatched(oldOp, made, portList, built) ==
  [module |-> [made.module EXCEPT
                 !.subfields = LiveSubfields(made.module, portList, built.erase),
                 !.body = built.stmts],
   errors |-> made.errors
                \o (IF DispatchKind(oldOp) = "else"
                      THEN << Diag(oldOp.id, UnsupportedOp) >> ELSE << >>),
   ub |-> \/ made.ub
          \/ extractSubfieldsUB(made.module)
          \/ GarbageNode \in built.reads
          \/ DispatchKind(oldOp) = "else"]

Extracted(oldOp, made, portList) ==
  Dispatched(oldOp, made, portList, BuildLogic(oldOp, portList))

Created(oldOp, made) == Extracted(oldOp, made, extractSubfields(made.module))

\* the sub-module of a cache miss, with its body built: the module, the
\* diagnostics emitted on the way, and whether undefined behaviour ran
BuildSubModule(oldOp, operandTypes) ==
  Created(oldOp, createSubModuleOp(oldOp, operandTypes,
                                   oldOp.name = "handshake.buffer",
                                   getSubModuleName(oldOp)))

-----------------------------------------------------------------------------
(* Instances in the top module.                                            *)

FirrtlOp(name, forOp) ==
  [NoOp EXCEPT !.dialect = "firrtl", !.name = name, !.id = forOp]

TopModuleOf(modules) == modules[Len(modules)]

\* the type a value of the top module has now
TypeOfValue(v, modules, body) ==
  CASE v.v = "arg" ->
         IF v.i + 1 \in DOMAIN TopModuleOf(modules).ports
           THEN TopModuleOf(modules).ports[v.i + 1].type ELSE NullType
    [] v.v = "res" ->
         LET defs == {p \in DOMAIN body : body[p].original /\ body[p].id = v.i}
         IN  IF defs = {} THEN NullType
             ELSE LET op == body[CHOOSE p \in defs : TRUE]
                  IN  IF v.j + 1 \in DOMAIN op.resTypes
                        THEN op.resTypes[v.j + 1] ELSE NullType
    [] v.v = "sub" ->
         LET defs == {p \in DOMAIN body :
                        /\ body[p].name = "firrtl.subfield"
                        /\ body[p].inst = v.i /\ body[p].port = v.j}
         IN  IF defs = {} THEN NullType
             ELSE body[CHOOSE p \in defs : TRUE].type
    [] OTHER -> NullType

OperandTypes(oldOp, modules, body) ==
  [k \in DOMAIN oldOp.operands |-> TypeOfValue(oldOp.operands[k], modules, body)]

\* std::find_if over the top module's arguments: the position, from 0, of
\* the first clock, or the number of arguments when there is none
FirstClock(topModuleOp) ==
  LET clocks == {i \in DOMAIN topModuleOp.ports :
                   topModuleOp.ports[i].type.k = "Clock"}
  IN  IF clocks = {} THEN Len(topModuleOp.ports)
      ELSE (CHOOSE i \in clocks : \A j \in clocks : i <= j) - 1

\* createInstOp whose bundle elements have the port types as they are
createInstOpUnflipped(oldOp, subModuleOp, topModuleOp, clockDomain, instId) ==
  LET numPorts == Len(subModuleOp.ports)
      elements == [i \in 1..numPorts |->
                     BundleElement("arg" \o ToString(i - 1),
                                   subModuleOp.ports[i].type)]
      instType == BundleTypeGet(elements)
      instanceOp == [FirrtlOp("firrtl.instance", oldOp.id) EXCEPT
                       !.module = subModuleOp.name, !.inst = instId,
                       !.type = instType]
      numIns == NumOperands(oldOp)
      numArgs == numIns + NumResults(oldOp)
      firstClock == FirstClock(topModuleOp)
      subfieldOp(idx) ==
        [FirrtlOp("firrtl.subfield", oldOp.id) EXCEPT
           !.operands = << Val("inst", instId, 0) >>, !.inst = instId,
           !.port = idx, !.type = elements[idx + 1].type]
      signalAt(idx) == firstClock + 2 * clockDomain + idx - numArgs
      connectOp(idx) ==
        IF idx < numIns
          THEN << [FirrtlOp("firrtl.connect", oldOp.id) EXCEPT
                     !.operands = << Val("sub", instId, idx),
                                     oldOp.operands[idx + 1] >>] >>
        ELSE IF idx < numArgs THEN << >>
        ELSE << [FirrtlOp("firrtl.connect", oldOp.id) EXCEPT
                   !.operands =
                     << Val("sub", instId, idx),
                        IF signalAt(idx) < Len(topModuleOp.ports)
                          THEN Val("arg", signalAt(idx), 0)
                          ELSE GarbageVal >>] >>
  IN  [ops |-> << instanceOp >>
                 \o Concat([i \in 1..numPorts |->
                              << subfieldOp(i - 1) >> \o connectOp(i - 1)]),
       replaced |-> [k \in {k \in 0..(NumResults(oldOp) - 1) :
                              numIns + k < numPorts} |-> numIns + k],
       ub |-> \/ \E i \in 1..numPorts : subModuleOp.ports[i].type = NullType
              \/ \E idx \in numArgs..(numPorts - 1) :
                   signalAt(idx) >= Len(topModuleOp.ports)]

\* createInstOp: the operations it inserts after oldOp (ops), the results
\* of oldOp it replaces (replaced[k] is the port whose subfield replaces
\* result k, from 0), and whether it ran undefined behaviour: the cast of
\* a null port type, or a read past the top module's last argument
createInstOp(oldOp, subModuleOp, topModuleOp, clockDomain, instId) ==
  LET numPorts == Len(subModuleOp.ports)
      elements == [i \in 1..numPorts |->
                     BundleElement("arg" \o ToString(i - 1),
                                   FlipTypeGet(subModuleOp.ports[i].type))]
      instType == BundleTypeGet(elements)
      instanceOp == [FirrtlOp("firrtl.instance", oldOp.id) EXCEPT
                       !.module = subModuleOp.name, !.inst = instId,
                       !.type = instType]
      numIns == NumOperands(oldOp)
      numArgs == numIns + NumResults(oldOp)
      firstClock == FirstClock(topModuleOp)
      subfieldOp(idx) ==
        [FirrtlOp("firrtl.subfield", oldOp.id) EXCEPT
           !.operands = << Val("inst", instId, 0) >>, !.inst = instId,
           !.port = idx, !.type = elements[idx + 1].type]
      signalAt(idx) == firstClock + 2 * clockDomain + idx - numArgs
      connectOp(idx) ==
        IF idx < numIns
          THEN << [FirrtlOp("firrtl.connect", oldOp.id) EXCEPT
                     !.operands = << Val("sub", instId, idx),
                                     oldOp.operands[idx + 1] >>] >>
        ELSE IF idx < numArgs THEN << >>
        ELSE << [FirrtlOp("firrtl.connect", oldOp.id) EXCEPT
                   !.operands =
                     << Val("sub", instId, idx),
                        IF signalAt(idx) < Len(topModuleOp.ports)
                          THEN Val("arg", signalAt(idx), 0)
                          ELSE GarbageVal >>] >>
  IN  [ops |-> << instanceOp >>
                 \o Concat([i \in 1..numPorts |->
                              << subfieldOp(i - 1) >> \o connectOp(i - 1)]),
       replaced |-> [k \in {k \in 0..(NumResults(oldOp) - 1) :
                              numIns + k < numPorts} |-> numIns + k],
       ub |-> \/ \E i \in 1..numPorts : subModuleOp.ports[i].type = NullType
              \/ \E idx \in numArgs..(numPorts - 1) :
                   signalAt(idx) >= Len(topModuleOp.ports)]

\* Rewire without the call of rewriter.eraseOp(oldOp)
RewireNoErase(body, pos, oldId, instId, inst) ==
  LET swap(v) == IF v.v = "res" /\ v.i = oldId /\ v.j \in DOMAIN inst.replaced
                   THEN Val("sub", instId, inst.replaced[v.j]) ELSE v
      fix(op) == [op EXCEPT !.operands = [k \in DOMAIN op.operands |->
                                            swap(op.operands[k])]]
      old == [body[pos] EXCEPT !.converted = @ + 1]
  IN  [p \in 1..(pos - 1) |-> fix(body[p])]
        \o << old >> \o inst.ops
        \o [p \in 1..(Len(body) - pos) |-> fix(body[pos + p])]

\* result.replaceAllUsesWith(subfieldOp) for every replaced result of the
\* operation oldId, and the insertion of ops right after position pos,
\* where the operation is marked erased and counted as converted
Rewire(body, pos, oldId, instId, inst) ==
  LET swap(v) == IF v.v = "res" /\ v.i = oldId /\ v.j \in DOMAIN inst.replaced
                   THEN Val("sub", instId, inst.replaced[v.j]) ELSE v
      fix(op) == [op EXCEPT !.operands = [k \in DOMAIN op.operands |->
                                            swap(op.operands[k])]]
      old == [body[pos] EXCEPT !.erased = TRUE, !.converted = @ + 1]
  IN  [p \in 1..(pos - 1) |-> fix(body[p])]
        \o << old >> \o inst.ops
        \o [p \in 1..(Len(body) - pos) |-> fix(body[pos + p])]

\* a module put before the top module, where createSubModuleOp inserts
AddSubModule(modules, m) ==
  SubSeq(modules, 1, Len(modules) - 1) \o << m, TopModuleOf(modules) >>

-----------------------------------------------------------------------------
(* Pipelines.  The region of a staticlogic.pipeline is a sequence of       *)
(* blocks; a block has arguments, addi operations and a terminator ("br",  *)
(* or "return" with operands).  A value of the region is argument i of     *)
(* block b or the result of operation i of block b, all counted from 0.    *)

PArg(b, i) == [v |-> "barg", b |-> b, i |-> i]
POp(b, i) == [v |-> "op", b |-> b, i |-> i]
AddI(a, b) == [a |-> a, b |-> b]
Block(nargs, ops, term, rets) ==
  [nargs |-> nargs, ops |-> ops, term |-> term, rets |-> rets]

\* getFirrtlType: a FIRRTL type as it is, the data element of the bundle
\* type otherwise (no value, which the code dereferences, when none)
getFirrtlType(type) ==
  IF type.k \in {"UInt", "SInt", "Clock", "Bundle", "Flip"} THEN type
  ELSE getElement(getBundleType(type, FALSE), "data")

\* Stages without the region's first block
StagesAfterEntry(region) ==
  LET idx == {b \in DOMAIN region : region[b].term # "return" /\ b > 1}
      RECURSIVE Sorted(_, _)
      Sorted(left, b) ==
        IF b > Len(region) THEN << >>
        ELSE (IF b \in left THEN << b - 1 >> ELSE << >>) \o Sorted(left, b + 1)
  IN  Sorted(idx, 1)

\* the blocks after the module's own entry block that do not end in a
\* staticlogic.return: the stages, as positions in the region from 0
Stages(region) ==
  LET idx == {b \in DOMAIN region : region[b].term # "return"}
      RECURSIVE Sorted(_, _)
      Sorted(left, b) ==
        IF b > Len(region) THEN << >>
        ELSE (IF b \in left THEN << b - 1 >> ELSE << >>) \o Sorted(left, b + 1)
  IN  Sorted(idx, 1)

\* value v has a use in a block other than its own
UsedElsewhere(region, v) ==
  \E b \in DOMAIN region :
    /\ b - 1 # v.b
    /\ \/ \E i \in DOMAIN region[b].ops :
            region[b].ops[i].a = v \/ region[b].ops[i].b = v
       \/ \E i \in DOMAIN region[b].rets : region[b].rets[i] = v

\* stageOuts that keeps the values without a use in another block
stageOutsAll(region, b) ==
  LET blk == region[b + 1]
      cands == [i \in 1..blk.nargs |-> PArg(b, i - 1)]
                 \o [i \in DOMAIN blk.ops |-> POp(b, i - 1)]
  IN  SelectSeq(cands, LAMBDA v : TRUE)

\* stageOuts of block b: its arguments, then its results, used elsewhere
stageOuts(region, b) ==
  LET blk == region[b + 1]
      cands == [i \in 1..blk.nargs |-> PArg(b, i - 1)]
                 \o [i \in DOMAIN blk.ops |-> POp(b, i - 1)]
  IN  SelectSeq(cands, LAMBDA v : UsedElsewhere(region, v))

\* blocksIdx of the stage at block b
StageIdx(region, b) ==
  Cardinality({k \in DOMAIN Stages(region) : Stages(region)[k] < b})

IsStage(region, b) == \E k \in DOMAIN Stages(region) : Stages(region)[k] = b

\* the RegOp made for value v: "data<blocksIdx>.<outsIdx>"
DataReg(region, v, type) ==
  LET outs == stageOuts(region, v.b)
      outsIdx == (CHOOSE i \in DOMAIN outs : outs[i] = v) - 1
  IN  Node("reg", << >>, 0,
           "data" \o ToString(StageIdx(region, v.b)) \o "." \o ToString(outsIdx),
           0, type)

\* HasDataReg of a pipeline whose uses are never replaced
HasDataRegNever(region, v) == FALSE

HasDataReg(region, v) ==
  /\ IsStage(region, v.b)
  /\ \E i \in DOMAIN stageOuts(region, v.b) : stageOuts(region, v.b)[i] = v

RECURSIVE Resolve(_, _, _, _)
\* what a use of v in block `from` reads once the module is built: the
\* stage register of v when v is of another block, the data subfield of a
\* port for an argument of the region's first block, the AddPrimOp for a
\* result
Resolve(region, portList, v, from) ==
  LET type == getFirrtlType(I32)
  IN  IF v.b # from /\ HasDataReg(region, v) THEN DataReg(region, v, type)
      ELSE IF v.v = "barg"
        THEN (IF v.b = 0 THEN PL(portList, v.i, 2)
              ELSE Node("value", << >>, v.b, "barg", v.i, NullType))
      ELSE IF v.b + 1 \in DOMAIN region /\ v.i + 1 \in DOMAIN region[v.b + 1].ops
        THEN LET op == region[v.b + 1].ops[v.i + 1]
             IN  Prim("add", type, Resolve(region, portList, op.a, v.b),
                      Resolve(region, portList, op.b, v.b))
      ELSE GarbageNode

Reg(name, type) == Node("reg", << >>, 0, name, 0, type)
Wire(name) == Node("wire", << >>, 0, name, 0, Signal)

\* buildPipelineStructure whose validWhenOp tests readyNext AND validPrev
buildPipelineStructureNoFlush(region, portList, numIns, numOuts) ==
  LET clockVal == PL(portList, numIns + numOuts, 0)
      resetVal == PL(portList, numIns + numOuts + 1, 0)
      zeroConstOp == createConstantOp(Signal, 0)
      oneConstOp == createConstantOp(Signal, 1)
      stages == Stages(region)
      blocksIdx == Len(stages)
      \* RegInitOp: its operands are the clock, the reset and the reset value
      validRegs == [i \in 1..blocksIdx |->
                      [Reg("valid" \o ToString(i - 1), Signal) EXCEPT
                         !.args = << clockVal, resetVal, zeroConstOp >>]]
      readyWires == [i \in 1..blocksIdx |-> Wire("ready" \o ToString(i - 1))]
      \* dataRegs[i]: the pairs (value, register) of stage i
      dataRegs ==
        [i \in 1..blocksIdx |->
           LET outs == stageOuts(region, stages[i])
           IN  [k \in DOMAIN outs |->
                  [first |-> Resolve(region, portList, outs[k], outs[k].b),
                   second |-> DataReg(region, outs[k], getFirrtlType(I32))]]]
      validIn == Wire("valid_in")
      readyIn == Wire("ready_in")
      flush(i) ==
        LET validPrev == IF i = 1 THEN validIn ELSE validRegs[i - 1]
            readyNext == IF i = blocksIdx THEN readyIn ELSE readyWires[i + 1]
            then == << Arm(validRegs[i], TRUE) >>
            else == << Arm(validRegs[i], FALSE) >>
            dataWillUpdate == Prim("and", Signal, readyNext, validPrev)
            validWillUpdate ==
              Prim("and", Signal, readyNext, validPrev)
        IN  [k \in DOMAIN dataRegs[i] |->
               Connect(dataRegs[i][k].second, dataRegs[i][k].first,
                       then \o << Arm(dataWillUpdate, TRUE) >>)]
            \o << Connect(validRegs[i], zeroConstOp,
                          then \o << Arm(validWillUpdate, TRUE) >>),
                  Connect(readyWires[i], readyNext, then) >>
            \o [k \in DOMAIN dataRegs[i] |->
                  Connect(dataRegs[i][k].second, dataRegs[i][k].first, else)]
            \o << Connect(validRegs[i], validPrev, else),
                  Connect(readyWires[i], oneConstOp, else) >>
  IN  [regs |-> validRegs
                  \o Concat([i \in 1..blocksIdx |->
                               [k \in DOMAIN dataRegs[i] |-> dataRegs[i][k].second]]),
       wires |-> readyWires \o << validIn, readyIn >>,
       stmts |-> Concat([i \in 1..blocksIdx |-> flush(i)]),
       reads |-> {clockVal, resetVal}]

\* buildPipelineStructure whose ready wire is 1 also when the stage is valid
buildPipelineStructureAlwaysReady(region, portList, numIns, numOuts) ==
  LET clockVal == PL(portList, numIns + numOuts, 0)
      resetVal == PL(portList, numIns + numOuts + 1, 0)
      zeroConstOp == createConstantOp(Signal, 0)
      oneConstOp == createConstantOp(Signal, 1)
      stages == Stages(region)
      blocksIdx == Len(stages)
      \* RegInitOp: its operands are the clock, the reset and the reset value
      validRegs == [i \in 1..blocksIdx |->
                      [Reg("valid" \o ToString(i - 1), Signal) EXCEPT
                         !.args = << clockVal, resetVal, zeroConstOp >>]]
      readyWires == [i \in 1..blocksIdx |-> Wire("ready" \o ToString(i - 1))]
      \* dataRegs[i]: the pairs (value, register) of stage i
      dataRegs ==
        [i \in 1..blocksIdx |->
           LET outs == stageOuts(region, stages[i])
           IN  [k \in DOMAIN outs |->
                  [first |-> Resolve(region, portList, outs[k], outs[k].b),
                   second |-> DataReg(region, outs[k], getFirrtlType(I32))]]]
      validIn == Wire("valid_in")
      readyIn == Wire("ready_in")
      flush(i) ==
        LET validPrev == IF i = 1 THEN validIn ELSE validRegs[i - 1]
            readyNext == IF i = blocksIdx THEN readyIn ELSE readyWires[i + 1]
            then == << Arm(validRegs[i], TRUE) >>
            else == << Arm(validRegs[i], FALSE) >>
            dataWillUpdate == Prim("and", Signal, readyNext, validPrev)
            validWillUpdate ==
              Prim("and", Signal, readyNext, Prim1("not", Signal, validPrev))
        IN  [k \in DOMAIN dataRegs[i] |->
               Connect(dataRegs[i][k].second, dataRegs[i][k].first,
                       then \o << Arm(dataWillUpdate, TRUE) >>)]
            \o << Connect(validRegs[i], zeroConstOp,
                          then \o << Arm(validWillUpdate, TRUE) >>),
                  Connect(readyWires[i], oneConstOp, then) >>
            \o [k \in DOMAIN dataRegs[i] |->
                  Connect(dataRegs[i][k].second, dataRegs[i][k].first, else)]
            \o << Connect(validRegs[i], validPrev, else),
                  Connect(readyWires[i], oneConstOp, else) >>
  IN  [regs |-> validRegs
                  \o Concat([i \in 1..blocksIdx |->
                               [k \in DOMAIN dataRegs[i] |-> dataRegs[i][k].second]]),
       wires |-> readyWires \o << validIn, readyIn >>,
       stmts |-> Concat([i \in 1..blocksIdx |-> flush(i)]),
       reads |-> {clockVal, resetVal}]

\* buildPipelineStructure whose validWhenOp writes 1 to the valid register
buildPipelineStructureStuck(region, portList, numIns, numOuts) ==
  LET clockVal == PL(portList, numIns + numOuts, 0)
      resetVal == PL(portList, numIns + numOuts + 1, 0)
      zeroConstOp == createConstantOp(Signal, 0)
      oneConstOp == createConstantOp(Signal, 1)
      stages == Stages(region)
      blocksIdx == Len(stages)
      \* RegInitOp: its operands are the clock, the reset and the reset value
      validRegs == [i \in 1..blocksIdx |->
                      [Reg("valid" \o ToString(i - 1), Signal) EXCEPT
                         !.args = << clockVal, resetVal, zeroConstOp >>]]
      readyWires == [i \in 1..blocksIdx |-> Wire("ready" \o ToString(i - 1))]
      \* dataRegs[i]: the pairs (value, register) of stage i
      dataRegs ==
        [i \in 1..blocksIdx |->
           LET outs == stageOuts(region, stages[i])
           IN  [k \in DOMAIN outs |->
                  [first |-> Resolve(region, portList, outs[k], outs[k].b),
                   second |-> DataReg(region, outs[k], getFirrtlType(I32))]]]
      validIn == Wire("valid_in")
      readyIn == Wire("ready_in")
      flush(i) ==
        LET validPrev == IF i = 1 THEN validIn ELSE validRegs[i - 1]
            readyNext == IF i = blocksIdx THEN readyIn ELSE readyWires[i + 1]
            then == << Arm(validRegs[i], TRUE) >>
            else == << Arm(validRegs[i], FALSE) >>
            dataWillUpdate == Prim("and", Signal, readyNext, validPrev)
            validWillUpdate ==
              Prim("and", Signal, readyNext, Prim1("not", Signal, validPrev))
        IN  [k \in DOMAIN dataRegs[i] |->
               Connect(dataRegs[i][k].second, dataRegs[i][k].first,
                       then \o << Arm(dataWillUpdate, TRUE) >>)]
            \o << Connect(validRegs[i], oneConstOp,
                          then \o << Arm(validWillUpdate, TRUE) >>),
                  Connect(readyWires[i], readyNext, then) >>
            \o [k \in DOMAIN dataRegs[i] |->
                  Connect(dataRegs[i][k].second, dataRegs[i][k].first, else)]
            \o << Connect(validRegs[i], validPrev, else),
                  Connect(readyWires[i], oneConstOp, else) >>
  IN  [regs |-> validRegs
                  \o Concat([i \in 1..blocksIdx |->
                               [k \in DOMAIN dataRegs[i] |-> dataRegs[i][k].second]]),
       wires |-> readyWires \o << validIn, readyIn >>,
       stmts |-> Concat([i \in 1..blocksIdx |-> flush(i)]),
       reads |-> {clockVal, resetVal}]

\* buildPipelineStructure: the registers and wires it creates and the
\* ConnectOps of the flushable pipeline logic
buildPipelineStructure(region, portList, numIns, numOuts) ==
  LET clockVal == PL(portList, numIns + numOuts, 0)
      resetVal == PL(portList, numIns + numOuts + 1, 0)
      zeroConstOp == createConstantOp(Signal, 0)
      oneConstOp == createConstantOp(Signal, 1)
      stages == Stages(region)
      blocksIdx == Len(stages)
      \* RegInitOp: its operands are the clock, the reset and the reset value
      validRegs == [i \in 1..blocksIdx |->
                      [Reg("valid" \o ToString(i - 1), Signal) EXCEPT
                         !.args = << clockVal, resetVal, zeroConstOp >>]]
      readyWires == [i \in 1..blocksIdx |-> Wire("ready" \o ToString(i - 1))]
      \* dataRegs[i]: the pairs (value, register) of stage i
      dataRegs ==
        [i \in 1..blocksIdx |->
           LET outs == stageOuts(region, stages[i])
           IN  [k \in DOMAIN outs |->
                  [first |-> Resolve(region, portList, outs[k], outs[k].b),
                   second |-> DataReg(region, outs[k], getFirrtlType(I32))]]]
      validIn == Wire("valid_in")
      readyIn == Wire("ready_in")
      flush(i) ==
        LET validPrev == IF i = 1 THEN validIn ELSE validRegs[i - 1]
            readyNext == IF i = blocksIdx THEN readyIn ELSE readyWires[i + 1]
            then == << Arm(validRegs[i], TRUE) >>
            else == << Arm(validRegs[i], FALSE) >>
            dataWillUpdate == Prim("and", Signal, readyNext, validPrev)
            validWillUpdate ==
              Prim("and", Signal, readyNext, Prim1("not", Signal, validPrev))
        IN  [k \in DOMAIN dataRegs[i] |->
               Connect(dataRegs[i][k].second, dataRegs[i][k].first,
                       then \o << Arm(dataWillUpdate, TRUE) >>)]
            \o << Connect(validRegs[i], zeroConstOp,
                          then \o << Arm(validWillUpdate, TRUE) >>),
                  Connect(readyWires[i], readyNext, then) >>
            \o [k \in DOMAIN dataRegs[i] |->
                  Connect(dataRegs[i][k].second, dataRegs[i][k].first, else)]
            \o << Connect(validRegs[i], validPrev, else),
                  Connect(readyWires[i], oneConstOp, else) >>
  IN  [regs |-> validRegs
                  \o Concat([i \in 1..blocksIdx |->
                               [k \in DOMAIN dataRegs[i] |-> dataRegs[i][k].second]]),
       wires |-> readyWires \o << validIn, readyIn >>,
       stmts |-> Concat([i \in 1..blocksIdx |-> flush(i)]),
       reads |-> {clockVal, resetVal}]

\* the ConnectOps of the return values: the data subfield of each result
\* port from the operand of the last block's terminator
ReturnConnects(region, portList, numIns) ==
  IF region = << >> THEN << >>
  ELSE [k \in DOMAIN region[Len(region)].rets |->
          Connect(PL(portList, numIns + k - 1, 2),
                  Resolve(region, portList, region[Len(region)].rets[k],
                          Len(region) - 1),
                  << >>)]

\* the Values convertPipelineOp reads from the port list
PipelineReads(region, portList, numIns) ==
  IF region = << >> THEN {}
  ELSE {PL(portList, i, 2) : i \in 0..(region[1].nargs - 1)}
         \cup {PL(portList, numIns + k - 1, 2) :
                 k \in DOMAIN region[Len(region)].rets}

\* the operations convertPipelineStages leaves in each block of the inlined
\* region: one AddPrimOp per addi, in the order of the block
StageOps(region, portList) ==
  [b \in DOMAIN region |->
     [i \in DOMAIN region[b].ops |->
        Resolve(region, portList, POp(b - 1, i - 1), b - 1)]]

RECURSIVE SplicedFront(_, _)
\* Spliced that moves the operations of a block to the front of the entry
\* block
SplicedFront(entryBlock, blocks) ==
  IF blocks = << >> THEN [nodes |-> entryBlock, blocks |-> 1]
  ELSE SplicedFront(Head(blocks) \o entryBlock, Tail(blocks))

RECURSIVE Spliced(_, _)
\* the cleanup of the block structure: the operations of every block after
\* the entry block are moved to the end of the entry block, before its
\* terminator, and the block is erased
Spliced(entryBlock, blocks) ==
  IF blocks = << >> THEN [nodes |-> entryBlock, blocks |-> 1]
  ELSE Spliced(entryBlock \o Head(blocks), Tail(blocks))

Structured(oldOp, made, portList, structure) ==
  [module |-> [made.module EXCEPT
                 !.subfields = LiveSubfields(made.module, portList, {}),
                 !.nodes = Spliced(<< >>, StageOps(oldOp.region, portList)).nodes,
                 !.blocks = Spliced(<< >>, StageOps(oldOp.region, portList)).blocks,
                 !.regs = structure.regs,
                 !.wires = structure.wires,
                 !.body = structure.stmts
                            \o ReturnConnects(oldOp.region, portList,
                                              NumOperands(oldOp))],
   errors |-> made.errors,
   ub |-> \/ made.ub
          \/ extractSubfieldsUB(made.module)
          \/ GarbageNode \in structure.reads
          \/ GarbageNode \in PipelineReads(oldOp.region, portList,
                                           NumOperands(oldOp))]

Inlined(oldOp, made, portList) ==
  Structured(oldOp, made, portList,
             buildPipelineStructure(oldOp.region, portList, NumOperands(oldOp),
                                    NumResults(oldOp)))

CreatedPipeline(oldOp, made) ==
  Inlined(oldOp, made, extractSubfields(made.module))

\* convertPipelineOp up to its call of createInstOp: the sub-module named
\* after the pipeline index, with the region inlined, lowered and flattened
convertPipelineOp(oldOp, operandTypes, idx) ==
  CreatedPipeline(oldOp, createSubModuleOp(oldOp, operandTypes, TRUE,
                                           getPipelineName(oldOp, idx)))

\* the pipeline of the test: three stages over three operands
SeedRegion ==
  << Block(3, << AddI(PArg(0, 0), PArg(0, 1)) >>, "br", << >>),
     Block(0, << AddI(PArg(0, 0), POp(0, 0)), AddI(PArg(0, 2), POp(0, 0)) >>,
           "br", << >>),
     Block(0, << AddI(POp(1, 0), POp(1, 1)) >>, "return", << POp(2, 0) >>) >>

\* a value of the first block read two blocks later
SkipRegion ==
  << Block(2, << AddI(PArg(0, 0), PArg(0, 1)) >>, "br", << >>),
     Block(0, << AddI(POp(0, 0), POp(0, 0)) >>, "br", << >>),
     Block(0, << AddI(POp(0, 0), POp(1, 0)) >>, "return", << POp(2, 0) >>) >>


-----------------------------------------------------------------------------
(* The functions given to the pass.  A body is a sequence of templates:    *)
(* an operation with the types of its operands.  Operand k of an           *)
(* operation reads a result of the operation before it when the types      *)
(* agree, and a new function argument otherwise; the function returns the  *)
(* results of its last operation.                                          *)

T(dialect, mnemonic, inTypes, resTypes) ==
  [op |-> [NoOp EXCEPT !.dialect = dialect,
                       !.name = dialect \o "." \o mnemonic,
                       !.resTypes = resTypes, !.original = TRUE],
   inTypes |-> inTypes]
WithPred(t, pred) == [t EXCEPT !.op.pred = pred]
WithControl(t, c) == [t EXCEPT !.op.control = IF c THEN "true" ELSE "false"]
WithValue(t, v) == [t EXCEPT !.op.value = v]
WithSlots(t, n, isSeq) == [t EXCEPT !.op.slots = n, !.op.seq = isSeq]
WithRegion(t, r) == [t EXCEPT !.op.region = r]

Binary(mnemonic) == T("std", mnemonic, << I32, I32 >>, << I32 >>)
CmpI(pred) == WithPred(T("std", "cmpi", << I32, I32 >>, << I1 >>), pred)

Pipeline(region) ==
  WithRegion(T("staticlogic", "pipeline",
               [i \in 1..region[1].nargs |-> I32], << I32 >>), region)

\* the operations Spec draws from
CoreTemplates ==
  { Binary("addi"),
    CmpI("ult"),
    Binary("divi_signed"),
    WithControl(T("handshake", "fork", << I32 >>, << I32, I32 >>), FALSE),
    WithValue(T("handshake", "constant", << NoneType >>, << I32 >>), 1),
    WithValue(T("handshake", "constant", << NoneType >>, << I32 >>), 2),
    WithSlots(WithControl(T("handshake", "buffer", << I32 >>, << I32 >>), FALSE),
              2, TRUE),
    WithControl(T("handshake", "branch", << FloatType >>, << FloatType >>), FALSE),
    T("other", "op", << I32 >>, << I32 >>),
    T("handshake", "sink", << I32 >>, << >>),
    T("handshake", "sink", << I1 >>, << >>),
    Pipeline(SeedRegion) }

\* every operator kind the dispatch knows, and the ones it does not
AllTemplates ==
  CoreTemplates
  \cup { Binary(m) : m \in {"subi", "muli", "and", "or", "xor", "shift_left",
                            "shift_right_signed"} }
  \cup { CmpI(p) : p \in {"eq", "ne", "slt", "sle", "sgt", "sge", "uge"} }
  \cup { WithControl(T("handshake", "fork", << NoneType >>,
                       << NoneType, NoneType >>), TRUE),
         WithControl(T("handshake", "lazy_fork", << I32 >>, << I32, I32 >>), FALSE),
         WithControl(T("handshake", "branch", << I32 >>, << I32 >>), FALSE),
         WithControl(T("handshake", "branch", << NoneType >>, << NoneType >>), TRUE),
         WithControl(T("handshake", "conditional_branch", << I1, I32 >>,
                       << I32, I32 >>), FALSE),
         WithControl(T("handshake", "conditional_branch", << I1, NoneType >>,
                       << NoneType, NoneType >>), TRUE),
         T("handshake", "merge", << I32, I32 >>, << I32 >>),
         T("handshake", "mux", << IndexType, I32, I32 >>, << I32 >>),
         WithControl(T("handshake", "control_merge", << NoneType, NoneType >>,
                       << NoneType, IndexType >>), TRUE),
         WithControl(T("handshake", "control_merge", << I32, I32 >>,
                       << I32, IndexType >>), FALSE),
         WithControl(T("handshake", "join", << NoneType, NoneType >>,
                       << NoneType >>), TRUE),
         T("handshake", "sink", << NoneType >>, << >>),
         WithSlots(WithControl(T("handshake", "buffer", << NoneType >>,
                                 << NoneType >>), TRUE), 1, FALSE),
         T("handshake", "memory", << I32 >>, << I32 >>),
         Pipeline(SkipRegion) }

\* the operations SpecChain draws from
ChainTemplates ==
  { Binary("addi"),
    CmpI("ult"),
    T("handshake", "sink", << I32 >>, << >>),
    Pipeline(SeedRegion) }

\* a function may have any symbol name: a plain one, the name the first
\* pipeline sub-module gets, and the signature of an operation
FuncNames == {"ops", "staticlogic.pipeline_0", "std.addi_2ins_1outs"}

RECURSIVE MakeBody(_, _, _)
MakeBody(ts, ops, argTypes) ==
  IF ts = << >> THEN [ops |-> ops, argTypes |-> argTypes]
  ELSE LET t == Head(ts)
           id == Len(ops) + 1
           prev == IF ops = << >> THEN NoOp ELSE ops[Len(ops)]
           nres == Len(prev.resTypes)
           src(k) == (k - 1) % nres
           fed(k) == nres > 0 /\ prev.resTypes[src(k) + 1] = t.inTypes[k]
           fresh(k) == Cardinality({j \in 1..(k - 1) : ~fed(j)})
           operand(k) == IF fed(k) THEN Val("res", id - 1, src(k))
                         ELSE Val("arg", Len(argTypes) + fresh(k), 0)
           newArgs == Concat([k \in DOMAIN t.inTypes |->
                                IF fed(k) THEN << >> ELSE << t.inTypes[k] >>])
           op == [t.op EXCEPT !.id = id,
                              !.operands = [k \in DOMAIN t.inTypes |-> operand(k)]]
       IN  MakeBody(Tail(ts), Append(ops, op), argTypes \o newArgs)

MakeFunc(name, ts) ==
  LET made == MakeBody(ts, << >>, << >>)
      n == Len(made.ops)
      last == IF n = 0 THEN NoOp ELSE made.ops[n]
      returned == [k \in DOMAIN last.resTypes |-> Val("res", n, k - 1)]
      resTypes == last.resTypes
      returnOp == [NoOp EXCEPT !.dialect = "handshake",
                               !.name = "handshake.return", !.id = n + 1,
                               !.operands = returned, !.original = TRUE]
  IN  [name |-> name, argTypes |-> made.argTypes, resTypes |-> resTypes,
       body |-> Append(made.ops, returnOp)]

Funcs(templates, maxOps) ==
  {MakeFunc(name, ts) : name \in FuncNames, ts \in SeqsUpTo(templates, maxOps)}

NoFunc == [name |-> "", argTypes |-> << >>, resTypes |-> << >>, body |-> << >>]

-----------------------------------------------------------------------------
(* The pass: HandshakeFuncOpLowering::rewrite.                             *)

Init ==
  /\ func \in Funcs(CoreTemplates, MaxOps)
  /\ pc = "start"
  /\ circuit = << >>
  /\ topBody = << >>
  /\ walkPos = 0
  /\ pipelineIdx = 0
  /\ errors = << >>
  /\ ub = FALSE
  /\ nextInst = 0
  /\ fnIn = 0
  /\ fnOut = 0

InitKinds ==
  /\ func \in Funcs(AllTemplates, MaxKindOps)
  /\ pc = "start"
  /\ circuit = << >>
  /\ topBody = << >>
  /\ walkPos = 0
  /\ pipelineIdx = 0
  /\ errors = << >>
  /\ ub = FALSE
  /\ nextInst = 0
  /\ fnIn = 0
  /\ fnOut = 0

\* functions of longer chains of fewer operation kinds
InitChain ==
  /\ func \in Funcs(ChainTemplates, MaxChainOps)
  /\ pc = "start"
  /\ circuit = << >>
  /\ topBody = << >>
  /\ walkPos = 0
  /\ pipelineIdx = 0
  /\ errors = << >>
  /\ ub = FALSE
  /\ nextInst = 0
  /\ fnIn = 0
  /\ fnOut = 0

\* the terminator of the top module's entry block
DoneOp == FirrtlOp("firrtl.done", 0)

\* the circuit and the top module, with the function's body inlined into
\* the top module's entry block, before its terminator
CreateTop ==
  /\ pc = "start"
  /\ LET top == createTopModuleOp(func, 1)
     IN  /\ circuit' = << top.module >>
         /\ errors' = errors \o top.errors
  /\ topBody' = func.body \o << DoneOp >>
  /\ walkPos' = 1
  /\ pc' = "walk"
  /\ UNCHANGED << func, pipelineIdx, ub, nextInst, fnIn, fnOut >>

\* the end of one iteration of the loop.  An iteration that executed
\* undefined behaviour either stops the process there or goes on with what
\* it read
Commit(isUB, circuit2, body2, errs, insts, pipes) ==
  /\ ub' = (ub \/ isUB)
  /\ errors' = errors \o errs
  /\ \/ /\ circuit' = circuit2
        /\ topBody' = body2
        /\ walkPos' = walkPos + 1
        /\ nextInst' = nextInst + insts
        /\ pipelineIdx' = pipelineIdx + pipes
        /\ pc' = "walk"
     \/ /\ isUB
        /\ pc' = "crashed"
        /\ UNCHANGED << circuit, topBody, walkPos, nextInst, pipelineIdx >>
  /\ UNCHANGED << func, fnIn, fnOut >>

AtOp == pc = "walk" /\ walkPos \in DOMAIN topBody

\* convertReturnOp whose ports are counted from the first argument
ConvertReturnFromZero ==
  /\ AtOp
  /\ topBody[walkPos].name = "handshake.return"
  /\ LET oldOp == topBody[walkPos]
         numIns == Len(func.argTypes)
         connects ==
           [k \in DOMAIN oldOp.operands |->
              [FirrtlOp("firrtl.connect", oldOp.id) EXCEPT
                 !.operands = << Val("arg", k - 1, 0), oldOp.operands[k] >>]]
         inst == [ops |-> connects, replaced |-> << >>]
     IN  Commit(FALSE, circuit, Rewire(topBody, walkPos, oldOp.id, 0, inst),
                << >>, 0, 0)

\* convertReturnOp: one ConnectOp per operand, to the output port
ConvertReturn ==
  /\ AtOp
  /\ topBody[walkPos].name = "handshake.return"
  /\ LET oldOp == topBody[walkPos]
         numIns == Len(func.argTypes)
         connects ==
           [k \in DOMAIN oldOp.operands |->
              [FirrtlOp("firrtl.connect", oldOp.id) EXCEPT
                 !.operands = << Val("arg", numIns + k - 1, 0), oldOp.operands[k] >>]]
         inst == [ops |-> connects, replaced |-> << >>]
     IN  Commit(FALSE, circuit, Rewire(topBody, walkPos, oldOp.id, 0, inst),
                << >>, 0, 0)

\* the end of createInstOp: the uses replaced, the operations inserted
Wired(oldOp, isUB, errs, circuit2, instId, pipes, inst) ==
  Commit(isUB \/ inst.ub, circuit2,
         Rewire(topBody, walkPos, oldOp.id, instId, inst), errs, 1, pipes)

\* createInstOp on the sub-module, in clock domain 0
Instantiate(oldOp, isUB, errs, circuit2, subModuleOp, instId, pipes) ==
  Wired(oldOp, isUB, errs, circuit2, instId, pipes,
        createInstOp(oldOp, subModuleOp, TopModuleOf(circuit2), 0, instId))

Piped(oldOp, built) ==
  Instantiate(oldOp, built.ub, built.errors,
              AddSubModule(circuit, built.module), built.module,
              nextInst + 1, 1)

\* convertPipelineOp, and the increment of the pipeline index
ConvertPipeline ==
  /\ AtOp
  /\ topBody[walkPos].name = "staticlogic.pipeline"
  /\ Piped(topBody[walkPos],
           convertPipelineOp(topBody[walkPos],
                             OperandTypes(topBody[walkPos], circuit, topBody),
                             pipelineIdx))

\* the sub-module found by checkSubModuleOp (found # 0), or the one built
Looked(oldOp, found, built) ==
  Instantiate(oldOp, found = 0 /\ built.ub,
              IF found = 0 THEN built.errors ELSE << >>,
              IF found = 0 THEN AddSubModule(circuit, built.module) ELSE circuit,
              IF found = 0 THEN built.module ELSE circuit[found],
              nextInst + 1, 0)

\* the branch of the other std and handshake operations: the sub-module
\* looked up, or created and built, and then instantiated
ConvertOp ==
  /\ AtOp
  /\ topBody[walkPos].name \notin {"handshake.return", "staticlogic.pipeline"}
  /\ topBody[walkPos].dialect \in {"std", "handshake"}
  /\ Looked(topBody[walkPos], checkSubModuleOp(circuit, topBody[walkPos]),
            BuildSubModule(topBody[walkPos],
                           OperandTypes(topBody[walkPos], circuit, topBody)))

\* an operation of another dialect: the loop goes on to the next one
SkipOp ==
  /\ AtOp
  /\ topBody[walkPos].name \notin {"handshake.return", "staticlogic.pipeline"}
  /\ topBody[walkPos].dialect \notin {"std", "handshake"}
  /\ walkPos' = walkPos + 1
  /\ UNCHANGED << func, pc, circuit, topBody, pipelineIdx, errors, ub, nextInst,
                  fnIn, fnOut >>

\* the loop has passed the last operation: the function is erased
Finish ==
  /\ pc = "walk"
  /\ walkPos > Len(topBody)
  /\ pc' = "done"
  /\ UNCHANGED << func, circuit, topBody, walkPos, pipelineIdx, errors, ub,
                  nextInst, fnIn, fnOut >>

Next ==
  \/ CreateTop
  \/ ConvertReturn
  \/ ConvertPipeline
  \/ ConvertOp
  \/ SkipOp
  \/ Finish

Spec == Init /\ [][Next]_vars

SpecKinds == InitKinds /\ [][Next]_vars
SpecChain == InitChain /\ [][Next]_vars

-----------------------------------------------------------------------------
(* The type mapping and the top-module builder applied on their own.       *)

\* the types given to getBundleType: the integers of every signedness up
\* to MaxWidth bits, index, none, a float, and types that are bundles
SourceTypes ==
  {IntegerType(sign, w) : sign \in {"Signed", "Unsigned", "Signless"},
                          w \in 1..MaxWidth}
    \cup {IndexType, NoneType, FloatType}
BundleTypes ==
  {buildBundleType(UIntType(w), f) : w \in 1..MaxWidth, f \in BOOLEAN}
    \cup {buildBundleType(NullType, f) : f \in BOOLEAN}

InitTypes ==
  /\ fnIn \in [type : SourceTypes \cup BundleTypes, isFlip : BOOLEAN]
  /\ fnOut = NullType
  /\ pc = "call"
  /\ func = NoFunc
  /\ circuit = << >>
  /\ topBody = << >>
  /\ walkPos = 0
  /\ pipelineIdx = 0
  /\ errors = << >>
  /\ ub = FALSE
  /\ nextInst = 0

ApplyGetBundleType ==
  /\ pc = "call"
  /\ fnOut' = getBundleType(fnIn.type, fnIn.isFlip)
  /\ pc' = "returned"
  /\ UNCHANGED << func, circuit, topBody, walkPos, pipelineIdx, errors, ub,
                  nextInst, fnIn >>

NextTypes == ApplyGetBundleType

SpecTypes == InitTypes /\ [][NextTypes]_vars

\* the argument and result types of the functions given to the builder
TopTypes == {I32, IntegerType("Signed", 8), NoneType, FloatType}

InitTop ==
  /\ fnIn \in [funcOp : [name : {"ops"},
                         argTypes : SeqsUpTo(TopTypes, MaxPorts),
                         resTypes : SeqsUpTo(TopTypes, MaxPorts)],
               numClocks : 0..MaxClocks]
  /\ fnOut = [module |-> FModuleOp("", << >>, "", 0), errors |-> << >>]
  /\ pc = "call"
  /\ func = NoFunc
  /\ circuit = << >>
  /\ topBody = << >>
  /\ walkPos = 0
  /\ pipelineIdx = 0
  /\ errors = << >>
  /\ ub = FALSE
  /\ nextInst = 0

ApplyCreateTopModuleOp ==
  /\ pc = "call"
  /\ fnOut' = createTopModuleOp(fnIn.funcOp, fnIn.numClocks)
  /\ pc' = "returned"
  /\ UNCHANGED << func, circuit, topBody, walkPos, pipelineIdx, errors, ub,
                  nextInst, fnIn >>

NextTop == ApplyCreateTopModuleOp

SpecTop == InitTop /\ [][NextTop]_vars

-----------------------------------------------------------------------------
(* Properties.                                                             *)

\* the positions of the original operations that went through the
\* sub-module cache: std and handshake operations other than the return
CachedOps ==
  {p \in DOMAIN topBody :
     /\ topBody[p].original
     /\ topBody[p].dialect \in {"std", "handshake"}
     /\ topBody[p].name # "handshake.return"}

\* the positions of the InstanceOps created for the operation with this id
InstancesOf(id) ==
  {q \in DOMAIN topBody :
     topBody[q].name = "firrtl.instance" /\ topBody[q].id = id}

\* C1: after any sequence of conversions of std/handshake operations, the
\* circuit holds exactly one sub-module per distinct signature among the
\* converted operations, no other cached sub-module, and every converted
\* operation's instance refers to the sub-module named by its signature.
C1_OneSubModulePerSignature ==
  LET done == {p \in CachedOps : topBody[p].converted > 0}
      sigs == {getSubModuleName(topBody[p]) : p \in done}
      subs == {i \in DOMAIN circuit : circuit[i].kind = "sub"}
  IN  /\ \A sig \in sigs :
           Cardinality({i \in subs : circuit[i].name = sig}) = 1
      /\ Cardinality(subs) = Cardinality(sigs)
      /\ \A p \in done : \A q \in InstancesOf(topBody[p].id) :
           topBody[q].module = getSubModuleName(topBody[p])

\* C2: in every state of the lowering no two modules of the circuit have
\* the same name, the top module, the cached sub-modules and the pipeline
\* sub-modules all counted.
C2_ModuleNamesUnique ==
  \A i, j \in DOMAIN circuit : i # j => circuit[i].name # circuit[j].name

\* the positions of the original operations the driver converts: the
\* std and handshake operations, the return included, and the pipelines
ConvertibleOps ==
  CachedOps \cup {p \in DOMAIN topBody :
                    /\ topBody[p].original
                    /\ topBody[p].name \in {"handshake.return",
                                            "staticlogic.pipeline"}}

\* a result of a converted operation still read by an operation that stays
StaleUse(q) ==
  \E k \in DOMAIN topBody[q].operands :
    /\ topBody[q].operands[k].v = "res"
    /\ \E p \in ConvertibleOps : topBody[p].id = topBody[q].operands[k].i

WalkFinished == pc = "done"

\* what is left of the walk: the original operations not yet converted,
\* and the operations from the walk position to the end of the block
Unconverted ==
  Cardinality({p \in ConvertibleOps : topBody[p].converted = 0})
Unvisited == Len(topBody) + 1 - walkPos

\* an iteration of the loop converts an original operation, or passes one
\* operation and converts none: the pair (Unconverted, Unvisited) decreases
C3_IterationDecreases ==
  (pc = "walk" /\ pc' = "walk") =>
     \/ Unconverted' < Unconverted
     \/ Unconverted' = Unconverted /\ Unvisited' < Unvisited

C3_EachOpConvertedOnce ==
  /\ \A p \in DOMAIN topBody :
       /\ topBody[p].converted <= 1
       /\ ~topBody[p].original => topBody[p].converted = 0 /\ ~topBody[p].erased
  /\ WalkFinished =>
       \A p \in ConvertibleOps :
         /\ topBody[p].erased
         /\ topBody[p].converted = 1
         /\ topBody[p].name # "handshake.return" =>
              Cardinality(InstancesOf(topBody[p].id)) = 1
         /\ \A q \in DOMAIN topBody : ~topBody[q].erased => ~StaleUse(q)

\* C3: when the walk finishes, every original std/handshake operation and
\* every pipeline has been replaced by exactly one instance and erased, and
\* the return has been erased; no operation is converted twice and the
\* FIRRTL operations the walk inserts are never converted, so that every
\* iteration brings the walk nearer to its end.
C3_WalkConvertsOnceAndStops ==
  []C3_EachOpConvertedOnce /\ [][C3_IterationDecreases]_vars

\* the walk has finished over a body with a cached operation and a
\* pipeline, after passing operations it inserted itself
C3_Witness ==
  /\ WalkFinished
  /\ \E p \in CachedOps : topBody[p].converted = 1
  /\ \E p \in ConvertibleOps : topBody[p].name = "staticlogic.pipeline"
  /\ \E q \in DOMAIN topBody : ~topBody[q].original /\ q < walkPos

\* the module an instance refers to by name
ModuleNamed(name) ==
  circuit[CHOOSE i \in DOMAIN circuit :
            /\ circuit[i].name = name
            /\ \A j \in DOMAIN circuit : circuit[j].name = name => i <= j]

\* a ConnectOp of the top module with this destination and this source
Connected(dst, src) ==
  \E q \in DOMAIN topBody :
    topBody[q].name = "firrtl.connect" /\ topBody[q].operands = << dst, src >>

\* the wiring of port idx of the instance at position q, made for the
\* original operation at position p, against the module it instantiates
PortWired(p, q, idx) ==
  LET oldOp == topBody[p]
      inst == topBody[q].inst
      declared == ModuleNamed(topBody[q].module).ports[idx + 1]
      numIns == NumOperands(oldOp)
      numArgs == numIns + NumResults(oldOp)
      top == TopModuleOf(circuit)
  IN  /\ \E r \in DOMAIN topBody :
           /\ topBody[r].name = "firrtl.subfield"
           /\ topBody[r].inst = inst /\ topBody[r].port = idx
      /\ idx < numIns =>
           Connected(Val("sub", inst, idx), oldOp.operands[idx + 1])
      /\ (numIns <= idx /\ idx < numArgs) =>
           \A r \in DOMAIN topBody :
             ~topBody[r].erased =>
               Val("res", oldOp.id, idx - numIns) \notin Range(topBody[r].operands)
      /\ idx >= numArgs =>
           \E a \in DOMAIN top.ports :
             /\ Connected(Val("sub", inst, idx), Val("arg", a - 1, 0))
             /\ top.ports[a].type = declared.type
             /\ top.ports[a].name = declared.name

\* C4: every port the sub-module of an instance declares is wired: operand
\* port k from the k-th operand, result port k in place of every use of
\* the k-th result, clock from the top module's clock and reset from its
\* reset, and the sub-module declares a port for every operand and result.
C4_InstancePortsWired ==
  \A p \in ConvertibleOps : \A q \in InstancesOf(topBody[p].id) :
    LET ports == ModuleNamed(topBody[q].module).ports
    IN  /\ Len(ports) >= NumOperands(topBody[p]) + NumResults(topBody[p])
        /\ \A idx \in 0..(Len(ports) - 1) : PortWired(p, q, idx)

\* the source types the type mapping covers
Supported(type) == type.k \in {"Integer", "Index", "None"}

\* a type with the flip, if any, taken off
Unflipped(t) == IF t.k = "Flip" THEN t.of ELSE t

\* t is a handshaked bundle: valid, ready and at most a data field, an
\* output channel (valid and data written, ready read) when flipped
IsChannel(t, flipped) ==
  /\ t.k = "Bundle"
  /\ Len(t.elements) \in {2, 3}
  /\ t.elements[1] = BundleElement("valid", IF flipped
                                              THEN [k |-> "Flip", of |-> UIntType(1)]
                                              ELSE UIntType(1))
  /\ t.elements[2] = BundleElement("ready", IF flipped
                                              THEN UIntType(1)
                                              ELSE [k |-> "Flip", of |-> UIntType(1)])
  /\ Len(t.elements) = 3 =>
       /\ t.elements[3].name = "data"
       /\ (t.elements[3].type.k = "Flip") = flipped
       /\ Unflipped(t.elements[3].type).k \in {"UInt", "SInt"}

HasData(t) == t.k = "Bundle" /\ \E i \in DOMAIN t.elements : t.elements[i].name = "data"

\* port i (from 1) of ports is the channel of a value of this source type
ChannelPort(ports, i, type, flipped) ==
  /\ i \in DOMAIN ports
  /\ ports[i].name = "arg" \o ToString(i - 1)
  /\ IsChannel(ports[i].type, flipped)
  /\ HasData(ports[i].type) = (type # NoneType)

\* C5: the top module of a function with n arguments, m results and K
\* clock domains, all of supported types, has n non-flipped bundles, then
\* m flipped bundles, then K clock/reset pairs named clock/reset when K = 1
\* and clock<i>/reset<i> otherwise; a bundle has data iff its type is not
\* none.
C5_TopModulePorts ==
  LET f == fnIn.funcOp
      K == fnIn.numClocks
      n == Len(f.argTypes)
      m == Len(f.resTypes)
      ports == fnOut.module.ports
      suffix(c) == IF K = 1 THEN "" ELSE ToString(c)
  IN  (/\ pc = "returned"
       /\ \A i \in 1..n : Supported(f.argTypes[i])
       /\ \A i \in 1..m : Supported(f.resTypes[i]))
      => /\ Len(ports) = n + m + 2 * K
         /\ \A i \in 1..n : ChannelPort(ports, i, f.argTypes[i], FALSE)
         /\ \A i \in 1..m : ChannelPort(ports, n + i, f.resTypes[i], TRUE)
         /\ \A c \in 0..(K - 1) :
              /\ ports[n + m + 2 * c + 1]
                   = ModulePort("clock" \o suffix(c), ClockType)
              /\ ports[n + m + 2 * c + 2]
                   = ModulePort("reset" \o suffix(c), UIntType(1))

\* a top module of two clock domains, with a none argument and a result
C5_Witness ==
  /\ pc = "returned"
  /\ fnIn.numClocks = 2
  /\ fnIn.funcOp.argTypes = << I32, NoneType >>
  /\ fnIn.funcOp.resTypes = << IntegerType("Signed", 8) >>
  /\ Len(fnOut.module.ports) = 7

\* the type a value of the function had in the source
SourceType(v) ==
  CASE v.v = "arg" -> func.argTypes[v.i + 1]
    [] v.v = "res" -> func.body[v.i].resTypes[v.j + 1]
    [] OTHER -> NullType

\* C6: in a lowering that has reported no error, the ports of every
\* sub-module are one non-flipped bundle per operand of its operation,
\* then one flipped bundle per result, then a clock and a 1-bit reset if
\* and only if the operation is a buffer or a pipeline.
C6_SubModulePorts ==
  errors = << >> =>
    \A i \in DOMAIN circuit :
      circuit[i].kind # "top" =>
        LET oldOp == func.body[circuit[i].forOp]
            ports == circuit[i].ports
            numIns == NumOperands(oldOp)
            numOuts == NumResults(oldOp)
            clocked == oldOp.name \in {"handshake.buffer", "staticlogic.pipeline"}
        IN  /\ Len(ports) = numIns + numOuts + (IF clocked THEN 2 ELSE 0)
            /\ \A k \in 1..numIns :
                 ChannelPort(ports, k, SourceType(oldOp.operands[k]), FALSE)
            /\ \A k \in 1..numOuts :
                 ChannelPort(ports, numIns + k, oldOp.resTypes[k], TRUE)
            /\ clocked =>
                 /\ ports[numIns + numOuts + 1] = ModulePort("clock", ClockType)
                 /\ ports[numIns + numOuts + 2] = ModulePort("reset", UIntType(1))

\* the data field of a bundle type, its flip taken off; NullType if none
DataField(t) == Unflipped(getElement(t, "data"))

\* C8: the type mapping gives a signed integer of width W a signed W data
\* field, an unsigned or signless one an unsigned W, index an unsigned of
\* the index-storage width, none a bundle without data; any other type
\* gives no bundle type; a bundle type is returned as it is, whatever the
\* flip asked.
C8_TypeMapping ==
  pc = "returned" =>
    LET t == fnIn.type
    IN  CASE t.k = "Bundle" -> fnOut = t
          [] t.k = "Integer" /\ t.sign = "Signed" ->
               IsChannel(fnOut, fnIn.isFlip) /\ DataField(fnOut) = SIntType(t.w)
          [] t.k = "Integer" /\ t.sign \in {"Unsigned", "Signless"} ->
               IsChannel(fnOut, fnIn.isFlip) /\ DataField(fnOut) = UIntType(t.w)
          [] t.k = "Index" ->
               /\ IsChannel(fnOut, fnIn.isFlip)
               /\ DataField(fnOut) = UIntType(IndexStorageBitWidth)
          [] t.k = "None" -> IsChannel(fnOut, fnIn.isFlip) /\ ~HasData(fnOut)
          [] OTHER -> fnOut = NullType

\* the mapping applied to a signless integer, and to a bundle asked flipped
C8_Witness ==
  /\ pc = "returned"
  /\ \/ fnIn.type = IntegerType("Signless", MaxWidth) /\ fnOut # NullType
     \/ fnIn.type.k = "Bundle" /\ fnIn.isFlip /\ fnOut = fnIn.type

\* the ConnectOps of module m that drive field `field` of port `port`
Drivers(m, port, field) ==
  {i \in DOMAIN m.body :
     /\ m.body[i].dst.op = "subfield"
     /\ m.body[i].dst.port = port
     /\ m.body[i].dst.field = field}

\* two ConnectOps that no evaluation of the conditions executes both: their
\* paths part at a WhenOp, one in its then region, one in its else region
Exclusive(path1, path2) ==
  \E k \in DOMAIN path1 \cap DOMAIN path2 :
    /\ \A j \in 1..(k - 1) : path1[j] = path2[j]
    /\ path1[k].cond = path2[k].cond
    /\ path1[k].pol # path2[k].pol

\* the field has a ConnectOp, and no two of its ConnectOps can both run
DrivenOnce(m, port, field) ==
  /\ Drivers(m, port, field) # {}
  /\ \A i, j \in Drivers(m, port, field) :
       i # j => Exclusive(m.body[i].path, m.body[j].path)

\* the sub-modules made for a supported operator kind, and the pipelines
SupportedSubModules ==
  {i \in DOMAIN circuit :
     \/ circuit[i].kind = "pipeline"
     \/ /\ circuit[i].kind = "sub"
        /\ DispatchKind(func.body[circuit[i].forOp]) = "builder"}

\* C7: in every sub-module of a supported operator kind, buffers and
\* pipelines included, the ready of each input channel, the valid of each
\* output channel and the data of each output channel that has one are
\* driven exactly once.
C7_ChannelsDrivenOnce ==
  errors = << >> =>
    \A i \in SupportedSubModules :
      LET m == circuit[i]
          oldOp == func.body[m.forOp]
          numIns == NumOperands(oldOp)
      IN  /\ \A k \in 1..numIns : DrivenOnce(m, k - 1, "ready")
          /\ \A k \in 1..NumResults(oldOp) :
               /\ DrivenOnce(m, numIns + k - 1, "valid")
               /\ HasData(m.ports[numIns + k].type) =>
                    DrivenOnce(m, numIns + k - 1, "data")

UnsupportedTypeReported ==
  \E e \in DOMAIN errors : errors[e].msg = UnsupportedType

\* C9: when a type outside the type mapping is met, the error is reported
\* and the lowering fails: no module has a port of missing type, the walk
\* does not finish, and no operation after the offending one (none at all
\* when the function's own types offend) is converted.
C9_UnsupportedTypeFails ==
  /\ \A i \in DOMAIN circuit : \A k \in DOMAIN circuit[i].ports :
       circuit[i].ports[k].type # NullType
  /\ UnsupportedTypeReported => pc # "done"
  /\ \A e \in DOMAIN errors : \A p \in ConvertibleOps :
       (errors[e].msg = UnsupportedType /\ topBody[p].id > errors[e].on)
         => topBody[p].converted = 0

\* C10: for a std or handshake operation that no logic builder applies to,
\* the unsupported-operation error is reported on it and the pass fails;
\* no sub-module is created or cached under its signature and none is
\* instantiated for it.
C10_UnsupportedOpFails ==
  \A p \in CachedOps :
    DispatchKind(topBody[p]) # "builder" =>
      /\ \A i \in DOMAIN circuit :
           circuit[i].kind = "sub" =>
             circuit[i].name # getSubModuleName(topBody[p])
      /\ InstancesOf(topBody[p].id) = {}
      /\ (pc = "walk" /\ walkPos > p) =>
           Diag(topBody[p].id, UnsupportedOp) \in Range(errors)
      /\ pc # "done"

-----------------------------------------------------------------------------
(* One cycle of a generated sub-module.  The values are those of the FIRRTL *)
(* operations the builders create: a primitive computes on unsigned         *)
(* integers, a ConnectOp under WhenOps takes effect when every condition on *)
(* its path has the value of its region, and the last ConnectOp in effect   *)
(* gives the value of a signal.                                             *)

\* the value of a signal no ConnectOp in effect drives, and of a read of a
\* Value that is null or garbage
Undriven == 0 - 1

RECURSIVE BitOp(_, _, _)
\* and, or, xor bit by bit
BitOp(op, a, b) ==
  IF a = 0 /\ b = 0 THEN 0
  ELSE LET x == a % 2
           y == b % 2
           bit == CASE op = "and" -> x * y
                    [] op = "or" -> IF x + y > 0 THEN 1 ELSE 0
                    [] OTHER -> (x + y) % 2
       IN  bit + 2 * BitOp(op, a \div 2, b \div 2)

Bool(c) == IF c THEN 1 ELSE 0

\* 2^n
RECURSIVE Pow2(_)
Pow2(n) == IF n = 0 THEN 1 ELSE 2 * Pow2(n - 1)

\* AddPrimOp, SubPrimOp, ... on unsigned operands
ApplyPrim(op, a, b) ==
  CASE a = Undriven \/ b = Undriven -> Undriven
    [] op = "add" -> a + b
    [] op = "sub" -> a - b
    [] op = "mul" -> a * b
    [] op \in {"and", "or", "xor"} -> BitOp(op, a, b)
    [] op = "eq" -> Bool(a = b)
    [] op = "neq" -> Bool(a # b)
    [] op = "lt" -> Bool(a < b)
    [] op = "leq" -> Bool(a <= b)
    [] op = "gt" -> Bool(a > b)
    [] op = "geq" -> Bool(a >= b)
    [] op = "dshl" -> a * Pow2(b)
    [] op = "dshr" -> a \div Pow2(b)
    [] OTHER -> Undriven

\* env.ports[p + 1] holds the values of the fields of port p; env.named the
\* values of the registers and of the wires given from outside; any other
\* wire has the value the ConnectOps of env.body give it in this cycle
RECURSIVE Eval(_, _)
RECURSIVE Driven(_, _, _)
Eval(node, env) ==
  CASE node.op = "subfield" ->
         IF node.port + 1 \in DOMAIN env.ports
           THEN env.ports[node.port + 1][node.field] ELSE Undriven
    [] node.op = "constant" -> node.val
    [] node.op \in {"reg", "wire"} ->
         IF node.field \in DOMAIN env.named THEN env.named[node.field]
         ELSE IF node.op = "wire" THEN Driven(env.body, node, env)
         ELSE Undriven
    [] Len(node.args) = 2 ->
         ApplyPrim(node.op, Eval(node.args[1], env), Eval(node.args[2], env))
    [] node.op = "not" /\ Len(node.args) = 1 ->
         LET a == Eval(node.args[1], env)
         IN  IF a = Undriven THEN Undriven ELSE 1 - a
    [] OTHER -> Undriven

\* the ConnectOp is in effect: each WhenOp on its path has it in the region
\* its condition selects
InEffect(path, env) ==
  \A k \in DOMAIN path : (Eval(path[k].cond, env) = 1) = path[k].pol

\* the value the ConnectOps of `body` give the signal `dst`
Driven(body, dst, env) ==
  LET on == {i \in DOMAIN body : body[i].dst = dst /\ InEffect(body[i].path, env)}
  IN  IF on = {} THEN Undriven
      ELSE Eval(body[CHOOSE i \in on : \A j \in on : j <= i].src, env)

\* the subfield of port p named field, as extractSubfields made it
SubfieldOf(m, p, field) ==
  SubfieldNode(p, field, getElement(m.ports[p + 1].type, field))

\* every field of every bundle port, as the module's ConnectOps drive it
Cycle(m, env) ==
  [p \in DOMAIN m.ports |->
     [f \in {"valid", "ready", "data"} |->
        IF m.ports[p].type.k = "Bundle"
          THEN Driven(m.body, SubfieldOf(m, p - 1, f), env)
          ELSE Undriven]]

-----------------------------------------------------------------------------
(* The logic builders applied to one operation and one cycle's inputs.     *)

Copies(type, n) == [i \in 1..n |-> type]

\* the operations the logic builders are applied to, with up to maxFan
\* inputs (merge, mux, control merge, join) or results (fork, lazy fork)
LogicTemplates(maxFan) ==
  { Binary(m) : m \in {"addi", "subi", "muli", "and", "or", "xor", "shift_left",
                       "shift_right_signed"} }
  \cup { CmpI(p) : p \in {"eq", "ne", "slt", "sle", "sgt", "sge"} }
  \cup { WithControl(T("handshake", f, << I32 >>, Copies(I32, n)), FALSE) :
           f \in {"fork", "lazy_fork"}, n \in 1..maxFan }
  \cup { WithControl(T("handshake", f, << NoneType >>, Copies(NoneType, n)), TRUE) :
           f \in {"fork", "lazy_fork"}, n \in 1..maxFan }
  \cup { T("handshake", "merge", Copies(I32, n), << I32 >>) : n \in 1..maxFan }
  \cup { T("handshake", "mux", << IndexType >> \o Copies(I32, n), << I32 >>) :
           n \in 1..maxFan }
  \cup { WithControl(T("handshake", "control_merge", Copies(NoneType, n),
                       << NoneType, IndexType >>), TRUE) : n \in 1..maxFan }
  \cup { WithControl(T("handshake", "control_merge", Copies(I32, n),
                       << I32, IndexType >>), FALSE) : n \in 1..maxFan }
  \cup { WithControl(T("handshake", "join", Copies(NoneType, n), << NoneType >>),
                     TRUE) : n \in 1..maxFan }
  \cup { WithControl(T("handshake", "conditional_branch", << I1, I32 >>,
                       << I32, I32 >>), FALSE),
         WithControl(T("handshake", "conditional_branch", << I1, NoneType >>,
                       << NoneType, NoneType >>), TRUE),
         WithControl(T("handshake", "branch", << I32 >>, << I32 >>), FALSE),
         WithControl(T("handshake", "branch", << NoneType >>, << NoneType >>), TRUE),
         T("handshake", "sink", << I32 >>, << >>),
         T("handshake", "sink", << NoneType >>, << >>) }
  \cup { WithValue(T("handshake", "constant", << NoneType >>, << I32 >>), v) :
           v \in 1..2 }

\* the operation of a template, its operands the function's arguments
Operation(t) ==
  [t.op EXCEPT !.id = 1,
               !.operands = [k \in DOMAIN t.inTypes |-> Val("arg", k - 1, 0)]]

\* the data values given to an input of this type
DataValues(type) ==
  CASE type = NoneType -> {0}
    [] type = I1 -> 0..1
    [] OTHER -> 0..MaxData

\* what the surroundings of the sub-module drive in a cycle: valid and data
\* of an operand channel, ready of a result channel
OperandValues(type) == [valid : 0..1, ready : {0}, data : DataValues(type)]
ResultValues == [valid : {0}, ready : 0..1, data : {0}]

RECURSIVE Product(_)
Product(sets) ==
  IF sets = << >> THEN {<< >>}
  ELSE {<< h >> \o t : h \in Head(sets), t \in Product(Tail(sets))}

LogicInputs(t) ==
  [op : {Operation(t)}, inTypes : {t.inTypes},
   env : Product([k \in DOMAIN t.inTypes |-> OperandValues(t.inTypes[k])]
                   \o [k \in DOMAIN t.op.resTypes |-> ResultValues])]

InitLogic ==
  /\ fnIn \in UNION {LogicInputs(t) : t \in LogicTemplates(MaxFan)}
  /\ fnOut = NullType
  /\ pc = "call"
  /\ func = NoFunc
  /\ circuit = << >>
  /\ topBody = << >>
  /\ walkPos = 0
  /\ pipelineIdx = 0
  /\ errors = << >>
  /\ ub = FALSE
  /\ nextInst = 0

\* the sub-module as built, and the cycle its ConnectOps make of the inputs
Simulated(built, ports) ==
  [module |-> built.module, ub |-> built.ub,
   out |-> Cycle(built.module, [ports |-> ports, named |-> << >>,
                                body |-> built.module.body])]

\* the sub-module branch of rewrite() up to the builder's return; a builder
\* that reads past the end of a vector may also stop the program
ApplyBuildLogic ==
  /\ pc = "call"
  /\ fnOut' = Simulated(BuildSubModule(fnIn.op, fnIn.inTypes), fnIn.env)
  /\ \/ pc' = "returned"
     \/ fnOut'.ub /\ pc' = "crashed"
  /\ UNCHANGED << func, circuit, topBody, walkPos, pipelineIdx, errors, ub,
                  nextInst, fnIn >>

NextLogic == ApplyBuildLogic

SpecLogic == InitLogic /\ [][NextLogic]_vars

-----------------------------------------------------------------------------
(* Properties of the logic the builders create.                            *)

\* the builder's call has returned for an operation of this name
Built1(name) == pc = "returned" /\ fnIn.op.name = name

\* both signals are 1
And2(a, b) == Bool(a = 1 /\ b = 1)

\* a token crosses the channel of port p (from 1) in this cycle: valid and
\* ready are both 1, one given by the surroundings and one by the sub-module
Transfer(p) ==
  IF p <= NumOperands(fnIn.op)
    THEN fnIn.env[p].valid = 1 /\ fnOut.out[p].ready = 1
    ELSE fnOut.out[p].valid = 1 /\ fnIn.env[p].ready = 1

\* the FIRRTL primitive that corresponds to a binary source operator
PrimitiveOf(op) ==
  CASE op.name = "std.addi" -> "add"
    [] op.name = "std.subi" -> "sub"
    [] op.name = "std.muli" -> "mul"
    [] op.name = "std.and" -> "and"
    [] op.name = "std.or" -> "or"
    [] op.name = "std.xor" -> "xor"
    [] op.name = "std.shift_left" -> "dshl"
    [] op.name = "std.shift_right_signed" -> "dshr"
    [] op.name = "std.cmpi" ->
         (CASE op.pred = "eq" -> "eq"
            [] op.pred = "ne" -> "neq"
            [] op.pred = "slt" -> "lt"
            [] op.pred = "sle" -> "leq"
            [] op.pred = "sgt" -> "gt"
            [] op.pred = "sge" -> "geq"
            [] OTHER -> "")
    [] OTHER -> ""

\* C11: in the sub-module of every binary arithmetic, logical, shift or
\* compare operator that has a primitive, for all inputs, result.valid is
\* a.valid AND b.valid, a.ready and b.ready are result.ready AND
\* result.valid, and result.data is the primitive of a.data and b.data; a
\* token crosses a iff one crosses b iff one crosses the result.
C11_BinaryLogic ==
  (pc = "returned" /\ PrimitiveOf(fnIn.op) # "") =>
    LET a == fnIn.env[1]
        b == fnIn.env[2]
        result == fnIn.env[3]
        out == fnOut.out
    IN  /\ out[3].valid = And2(a.valid, b.valid)
        /\ out[1].ready = And2(result.ready, out[3].valid)
        /\ out[2].ready = out[1].ready
        /\ out[3].data = ApplyPrim(PrimitiveOf(fnIn.op), a.data, b.data)
        /\ Transfer(1) = Transfer(2)
        /\ Transfer(2) = Transfer(3)

\* a signed less-than of 1 and 2 whose token is taken
C11_Witness ==
  /\ Built1("std.cmpi")
  /\ fnIn.op.pred = "slt"
  /\ fnIn.env[1].data = 1 /\ fnIn.env[2].data = 2
  /\ fnOut.out[3].data = 1
  /\ Transfer(1) /\ Transfer(3)

\* the fork of a lazy fork and the lazy fork of a fork
Sibling(op) ==
  [op EXCEPT !.name = IF op.name = "handshake.fork" THEN "handshake.lazy_fork"
                      ELSE "handshake.fork"]

\* C12: a fork and a lazy fork with the same N results get the same logic;
\* operand.ready is the AND of the N result readys, every result valid is
\* operand.valid AND that AND, so the operand's token crosses iff a token
\* crosses every result channel.
C12_ForkAllOrNone ==
  (pc = "returned" /\ fnIn.op.name \in {"handshake.fork", "handshake.lazy_fork"}) =>
    LET N == NumResults(fnIn.op)
        allReady == \A k \in 1..N : fnIn.env[1 + k].ready = 1
    IN  /\ fnOut.module.body
             = BuildSubModule(Sibling(fnIn.op), fnIn.inTypes).module.body
        /\ fnOut.out[1].ready = Bool(allReady)
        /\ \A k \in 1..N :
             fnOut.out[1 + k].valid = Bool(fnIn.env[1].valid = 1 /\ allReady)
        /\ Transfer(1) = (\A k \in 1..N : Transfer(1 + k))

\* a fork of MaxFan results that holds a valid token because its last
\* result is not ready: the first result, which is ready, gets none
C12_Witness ==
  /\ Built1("handshake.fork")
  /\ NumResults(fnIn.op) = MaxFan
  /\ fnIn.env[1].valid = 1
  /\ fnIn.env[2].ready = 1
  /\ fnIn.env[1 + MaxFan].ready = 0
  /\ ~Transfer(1) /\ ~Transfer(2)

\* inputs (from 1) of the sub-module whose valid is 1
ValidInputs(first, last) == {k \in first..last : fnIn.env[k].valid = 1}

\* the lowest of a set of port indices
Lowest(S) == CHOOSE k \in S : \A j \in S : k <= j

\* C13: in a merge of N inputs, when some input is valid and i is the
\* lowest valid one, result.data and result.valid are those of input i and
\* input i's ready is result.ready; no other valid input is given ready.
C13_MergePriority ==
  (Built1("handshake.merge") /\ ValidInputs(1, NumOperands(fnIn.op)) # {}) =>
    LET N == NumOperands(fnIn.op)
        i == Lowest(ValidInputs(1, N))
    IN  /\ fnOut.out[N + 1].data = fnIn.env[i].data
        /\ fnOut.out[N + 1].valid = fnIn.env[i].valid
        /\ fnOut.out[i].ready = fnIn.env[N + 1].ready
        /\ \A j \in ValidInputs(1, N) \ {i} : fnOut.out[j].ready # 1

\* a merge whose first input is idle and whose next two are both valid, with
\* different data, and whose result is taken
C13_Witness ==
  /\ Built1("handshake.merge")
  /\ NumOperands(fnIn.op) = 3
  /\ ValidInputs(1, 3) = {2, 3}
  /\ fnIn.env[2].data # fnIn.env[3].data
  /\ fnIn.env[4].ready = 1
  /\ Transfer(2) /\ ~Transfer(3)

\* C14: in a mux of N data inputs, numbered 0..N-1 in port order after the
\* selector, when select.valid is 1 and select.data = i < N, result.valid
\* and result.data are those of data input i, input i's ready is
\* result.ready, and select.ready is input_i.valid AND result.ready.
C14_MuxSelects ==
  (/\ Built1("handshake.mux")
   /\ fnIn.env[1].valid = 1
   /\ fnIn.env[1].data < NumOperands(fnIn.op) - 1) =>
    LET N == NumOperands(fnIn.op) - 1
        input == fnIn.env[1].data + 2
    IN  /\ fnOut.out[N + 2].valid = fnIn.env[input].valid
        /\ fnOut.out[N + 2].data = fnIn.env[input].data
        /\ fnOut.out[input].ready = fnIn.env[N + 2].ready
        /\ fnOut.out[1].ready = And2(fnIn.env[input].valid, fnIn.env[N + 2].ready)

\* C15: in a conditional branch, when selector.valid is 1 the data channel
\* goes to result 0 if selector.data is true and to result 1 if it is
\* false: the chosen result's valid is data.valid, data.ready is its ready,
\* and selector.ready is data.valid AND its ready.
C15_ConditionalBranchRoutes ==
  (Built1("handshake.conditional_branch") /\ fnIn.env[1].valid = 1) =>
    LET chosen == IF fnIn.env[1].data = 1 THEN 3 ELSE 4
    IN  /\ fnOut.out[chosen].valid = fnIn.env[2].valid
        /\ fnOut.out[2].ready = fnIn.env[chosen].ready
        /\ fnOut.out[1].ready = And2(fnIn.env[2].valid, fnIn.env[chosen].ready)

\* a false selector with a valid token, the false result ready and the true
\* result not: the token leaves on result 1
C15_Witness ==
  /\ Built1("handshake.conditional_branch")
  /\ fnIn.env[1].valid = 1 /\ fnIn.env[1].data = 0
  /\ fnIn.env[2].valid = 1
  /\ fnIn.env[3].ready = 0 /\ fnIn.env[4].ready = 1
  /\ Transfer(1) /\ Transfer(2) /\ Transfer(4) /\ ~Transfer(3)

\* C16: in a control merge of N inputs, when some input is valid and i is
\* the lowest valid one (counted from 0), index.data is i, index.valid and
\* the primary result's valid are input i's valid, and input i's ready is
\* primary.ready AND index.ready.
C16_ControlMergeIndex ==
  (/\ Built1("handshake.control_merge")
   /\ ValidInputs(1, NumOperands(fnIn.op)) # {}) =>
    LET N == NumOperands(fnIn.op)
        i == Lowest(ValidInputs(1, N))
    IN  /\ fnOut.out[N + 2].data = i - 1
        /\ fnOut.out[N + 2].valid = fnIn.env[i].valid
        /\ fnOut.out[N + 1].valid = fnIn.env[i].valid
        /\ fnOut.out[i].ready = And2(fnIn.env[N + 1].ready, fnIn.env[N + 2].ready)

\* a control merge whose first input is idle and whose second and third are
\* valid, both results ready: the index output carries 1
C16_Witness ==
  /\ Built1("handshake.control_merge")
  /\ NumOperands(fnIn.op) = 3
  /\ ValidInputs(1, 3) = {2, 3}
  /\ fnOut.out[5].data = 1
  /\ Transfer(2) /\ Transfer(4) /\ Transfer(5)

\* C17: in a join of N >= 1 operands, result.valid is the AND of the N
\* operand valids and every operand's ready is result.ready AND
\* result.valid.
C17_JoinAllValid ==
  Built1("handshake.join") =>
    LET N == NumOperands(fnIn.op)
        allValid == Bool(ValidInputs(1, N) = 1..N)
    IN  /\ fnOut.out[N + 1].valid = allValid
        /\ \A k \in 1..N :
             fnOut.out[k].ready = And2(fnIn.env[N + 1].ready, allValid)

\* a join of three operands of which only the middle one is idle: nothing
\* is valid on the result and no operand is taken
C17_Witness ==
  /\ Built1("handshake.join")
  /\ NumOperands(fnIn.op) = 3
  /\ ValidInputs(1, 3) = {1, 3}
  /\ fnIn.env[4].ready = 1
  /\ fnOut.out[4].valid = 0
  /\ ~Transfer(1) /\ ~Transfer(3)

\* C18: in every sink sub-module arg.ready is driven with the constant 1,
\* whatever arg.valid and arg.data are, and no SubfieldOp reading arg.valid
\* or arg.data is left in the sub-module.
C18_SinkNeverBlocks ==
  Built1("handshake.sink") =>
    /\ fnOut.out[1].ready = 1
    /\ \A i \in DOMAIN fnOut.module.body :
         fnOut.module.body[i].src.op = "constant"
    /\ \A i \in DOMAIN fnOut.module.subfields :
         fnOut.module.subfields[i].node.field \in {"valid", "data"}
           => fnOut.module.subfields[i].erased

\* a sink of a data channel with no token on it, ready all the same
C18_Witness ==
  /\ Built1("handshake.sink")
  /\ fnIn.inTypes = << I32 >>
  /\ fnIn.env[1].valid = 0
  /\ fnOut.out[1].ready = 1
  /\ Len(fnOut.module.subfields) = 3

\* a cycle of a constant's sub-module: trigger.valid and result.ready given
ConstantCycle(m, valid, ready) ==
  Cycle(m, [ports |-> << [valid |-> valid, ready |-> 0, data |-> 0],
                         [valid |-> 0, ready |-> ready, data |-> 0] >>,
            named |-> << >>, body |-> m.body])

\* C19: for every constant operation of the function, the sub-module its
\* instance refers to drives result.data with the value of that operation's
\* own attribute, result.valid with trigger.valid and trigger.ready with
\* result.ready, also when the function has constants of different values.
C19_ConstantLiteral ==
  \A p \in CachedOps :
    (topBody[p].name = "handshake.constant" /\ topBody[p].converted > 0) =>
      \A q \in InstancesOf(topBody[p].id) :
        \A valid, ready \in 0..1 :
          /\ ConstantCycle(ModuleNamed(topBody[q].module), valid, ready)[2].data
               = topBody[p].value
          /\ ConstantCycle(ModuleNamed(topBody[q].module), valid, ready)[2].valid
               = valid
          /\ ConstantCycle(ModuleNamed(topBody[q].module), valid, ready)[1].ready
               = ready


-----------------------------------------------------------------------------
(* The sub-module of a pipeline, clock edge after clock edge.              *)

\* a pipeline of one block
ReturnRegion ==
  << Block(2, << AddI(PArg(0, 0), PArg(0, 1)) >>, "return", << POp(0, 0) >>) >>

\* the regions the pipelines are made of
PipelineRegions == {SeedRegion, SkipRegion, ReturnRegion}

\* what a register holds after the clock edge: the source of its last
\* ConnectOp in effect, its own value when none is
Latched(body, reg, env) ==
  IF \E i \in DOMAIN body : body[i].dst = reg /\ InEffect(body[i].path, env)
    THEN Driven(body, reg, env)
  ELSE Eval(reg, env)

\* the values a cycle is given from outside the pipeline's logic: the
\* wires valid_in and ready_in, and the data of the ports (port p carries
\* p * p times the value drawn, so that the ports and their sums differ)
PipelineDrive(m) ==
  [valid_in : 0..1, ready_in : 0..1,
   ports : {[p \in DOMAIN m.ports |-> [valid |-> 0, ready |-> 0, data |-> p * p * d]] :
              d \in DataValues(I1)}]

InitPipeline ==
  /\ fnIn \in [op : {Operation(Pipeline(r)) : r \in PipelineRegions},
                flushing : {0}]
  /\ fnOut = NullType
  /\ pc = "call"
  /\ func = NoFunc
  /\ circuit = << >>
  /\ topBody = << >>
  /\ walkPos = 0
  /\ pipelineIdx = 0
  /\ errors = << >>
  /\ ub = FALSE
  /\ nextInst = 0

\* convertPipelineOp builds the sub-module; its registers then hold their
\* values after reset
BuildPipeline ==
  /\ pc = "call"
  /\ LET built == convertPipelineOp(fnIn.op,
                                    [k \in DOMAIN fnIn.op.operands |-> I32],
                                    pipelineIdx)
     IN  fnOut' = [module |-> built.module, ub |-> built.ub,
                   named |-> [n \in {built.module.regs[i].field :
                                       i \in DOMAIN built.module.regs} |->
                                LET reg == CHOOSE r \in Range(built.module.regs) :
                                             r.field = n
                                IN  IF Len(reg.args) = 3 THEN reg.args[3].val
                                    ELSE Undriven]]
  /\ pc' = "built"
  /\ UNCHANGED << func, circuit, topBody, walkPos, pipelineIdx, errors, ub,
                  nextInst, fnIn >>

\* one clock edge: fnIn.env is the cycle before the edge, fnOut.named the
\* registers after it, fnIn.flushing the number of cycles up to this one,
\* counted up to one more than the stages, for which valid_in has been 0
\* and ready_in 1 without interruption
ClockPipeline ==
  /\ pc \in {"built", "clocked"}
  /\ \E d \in PipelineDrive(fnOut.module) :
       LET m == fnOut.module
           env == [ports |-> d.ports, body |-> m.body,
                   named |-> [n \in DOMAIN fnOut.named \cup {"valid_in", "ready_in"} |->
                                IF n = "valid_in" THEN d.valid_in
                                ELSE IF n = "ready_in" THEN d.ready_in
                                ELSE fnOut.named[n]]]
       IN  /\ fnIn' = [op |-> fnIn.op, env |-> env,
                       flushing |-> IF d.valid_in = 0 /\ d.ready_in = 1
                                      THEN (IF fnIn.flushing
                                                   <= Len(Stages(fnIn.op.region))
                                              THEN fnIn.flushing + 1
                                            ELSE fnIn.flushing)
                                    ELSE 0]
           /\ fnOut' = [fnOut EXCEPT
                          !.named = [n \in DOMAIN fnOut.named |->
                                       Latched(m.body,
                                               CHOOSE r \in {m.regs[i] : i \in DOMAIN m.regs} :
                                                 r.field = n,
                                               env)]]
  /\ pc' = "clocked"
  /\ UNCHANGED << func, circuit, topBody, walkPos, pipelineIdx, errors, ub,
                  nextInst >>

NextPipeline == BuildPipeline \/ ClockPipeline

SpecPipeline == InitPipeline /\ [][NextPipeline]_vars


-----------------------------------------------------------------------------
(* Properties of the pipeline's flushable back-pressure.                   *)

\* the register named valid<s> of the pipeline's sub-module
ValidReg(s) ==
  CHOOSE r \in Range(fnOut.module.regs) : r.field = "valid" \o ToString(s)
ReadyWire(s) == Wire("ready" \o ToString(s))
NumStages == Len(Stages(fnIn.op.region))

\* the signals of stage s in the cycle before the clock edge
ValidOf(s) == Eval(ValidReg(s), fnIn.env)
ReadyOf(s) == Eval(ReadyWire(s), fnIn.env)
ValidPrev(s) == IF s = 0 THEN fnIn.env.named["valid_in"] ELSE ValidOf(s - 1)
ReadyNext(s) ==
  IF s = NumStages - 1 THEN fnIn.env.named["ready_in"] ELSE ReadyOf(s + 1)

\* the ConnectOps of the data registers of stage s: those of a register
\* other than valid<s> under the WhenOp of valid<s>
DataConnects(s) ==
  {i \in DOMAIN fnOut.module.body :
     LET c == fnOut.module.body[i]
     IN  /\ c.dst.op = "reg"
         /\ c.dst # ValidReg(s)
         /\ c.path # << >>
         /\ c.path[1].cond = ValidReg(s)}

\* the data registers of stage s hold their source values after the edge
Loaded(s) ==
  \A i \in DataConnects(s) :
    LET c == fnOut.module.body[i]
    IN  fnOut.named[c.dst.field] = Eval(c.src, fnIn.env)

\* the data registers of stage s hold after the edge what they held before
Held(s) ==
  \A i \in DataConnects(s) :
    LET c == fnOut.module.body[i]
    IN  fnOut.named[c.dst.field] = fnIn.env.named[c.dst.field]

\* C20: at every clock edge and for every stage s of a generated pipeline,
\* with valid_in before the first stage and ready_in after the last: when
\* valid_s is 1, ready_s equals ready_{s+1}, the data registers of the stage
\* load their sources if ready_{s+1} and valid_{s-1} are both 1 and keep
\* their values otherwise, and valid_s becomes 0 if ready_{s+1} is 1 and
\* valid_{s-1} is 0 and stays 1 otherwise; when valid_s is 0, ready_s is 1,
\* the data registers load their sources and valid_s becomes valid_{s-1}.
C20_FlushableBackPressure ==
  pc = "clocked" =>
    \A s \in 0..(NumStages - 1) :
      /\ ValidOf(s) \in 0..1
      /\ ValidOf(s) = 1 =>
           /\ ReadyOf(s) = ReadyNext(s)
           /\ IF ReadyNext(s) = 1 /\ ValidPrev(s) = 1 THEN Loaded(s) ELSE Held(s)
           /\ fnOut.named[ValidReg(s).field]
                = (IF ReadyNext(s) = 1 /\ ValidPrev(s) = 0 THEN 0 ELSE 1)
      /\ ValidOf(s) = 0 =>
           /\ ReadyOf(s) = 1
           /\ Loaded(s)
           /\ fnOut.named[ValidReg(s).field] = ValidPrev(s)

\* the three-stage pipeline with both stages valid, no new input and the
\* output taken: the first stage is flushed and keeps its data, the second
\* stays valid and its data registers load new values
C20_Witness ==
  /\ pc = "clocked"
  /\ fnIn.op.region = SeedRegion
  /\ NumStages = 2
  /\ DataConnects(0) # {} /\ DataConnects(1) # {}
  /\ ValidOf(0) = 1 /\ ValidOf(1) = 1
  /\ fnIn.env.named["valid_in"] = 0 /\ fnIn.env.named["ready_in"] = 1
  /\ fnOut.named["valid0"] = 0 /\ fnOut.named["valid1"] = 1
  /\ Held(0) /\ Loaded(1) /\ ~Held(1)


\* C21: in a generated pipeline ready_s is a wire, not a register, and
\* equals (NOT valid_s) OR ready_{s+1} in the same cycle; a stage that is
\* valid while ready_{s+1} is 0 has ready_s = 0 and, after the clock edge,
\* valid_s still 1 and its data registers unchanged; when every stage is
\* valid and ready_in is 0, ready_0 is 0 and no register changes.
C21_BackPressureSameCycle ==
  pc = "clocked" =>
    /\ \A s \in 0..(NumStages - 1) :
         /\ \E i \in DOMAIN fnOut.module.wires : fnOut.module.wires[i] = ReadyWire(s)
         /\ \A i \in DOMAIN fnOut.module.regs :
              fnOut.module.regs[i].field # ReadyWire(s).field
         /\ ReadyOf(s) = Bool(ValidOf(s) = 0 \/ ReadyNext(s) = 1)
         /\ (ValidOf(s) = 1 /\ ReadyNext(s) = 0) =>
              /\ ReadyOf(s) = 0
              /\ fnOut.named[ValidReg(s).field] = 1
              /\ Held(s)
    /\ (/\ NumStages > 0
        /\ \A s \in 0..(NumStages - 1) : ValidOf(s) = 1
        /\ fnIn.env.named["ready_in"] = 0) =>
         /\ ReadyOf(0) = 0
         /\ \A n \in DOMAIN fnOut.named : fnOut.named[n] = fnIn.env.named[n]

\* the three-stage pipeline full, its output not taken and a new input
\* offered whose values differ from the ones the registers hold
C21_Witness ==
  /\ pc = "clocked"
  /\ fnIn.op.region = SeedRegion
  /\ \A s \in 0..(NumStages - 1) : ValidOf(s) = 1
  /\ fnIn.env.named["ready_in"] = 0 /\ fnIn.env.named["valid_in"] = 1
  /\ ReadyOf(0) = 0 /\ ReadyOf(1) = 0
  /\ DataConnects(0) # {} /\ ~Loaded(0)
  /\ \A n \in DOMAIN fnOut.named : fnOut.named[n] = fnIn.env.named[n]


-----------------------------------------------------------------------------
(* Properties of the registers and wires of a pipeline's sub-module.       *)

\* the positions, from 1, of the blocks of the region that do not end in a
\* staticlogic.return
NonReturnBlocks == {b \in DOMAIN fnIn.op.region : fnIn.op.region[b].term # "return"}

\* the registers made with a reset value, and the wires other than the
\* pipeline's valid_in and ready_in
ResetRegs == {i \in DOMAIN fnOut.module.regs : Len(fnOut.module.regs[i].args) = 3}
StageWires ==
  {i \in DOMAIN fnOut.module.wires :
     fnOut.module.wires[i].field \notin {"valid_in", "ready_in"}}

\* the sub-module has one valid register and one ready wire for each block
\* of `blocks`, named valid0, valid1, ... and ready0, ready1, ...; the
\* registers are clocked by the module's clock, reset by its reset and have
\* the reset value 0
OneValidAndReadyPer(blocks) ==
  LET m == fnOut.module
      S == Cardinality(blocks)
  IN  /\ Cardinality(ResetRegs) = S
      /\ {m.regs[i].field : i \in ResetRegs}
           = {"valid" \o ToString(k) : k \in 0..(S - 1)}
      /\ \A i \in ResetRegs :
           LET r == m.regs[i]
           IN  /\ r.type = Signal
               /\ r.args[1].op = "port"
               /\ m.ports[r.args[1].port + 1] = ModulePort("clock", ClockType)
               /\ r.args[2].op = "port"
               /\ m.ports[r.args[2].port + 1] = ModulePort("reset", UIntType(1))
               /\ r.args[3].op = "constant" /\ r.args[3].val = 0
      /\ Cardinality(StageWires) = S
      /\ {m.wires[i].field : i \in StageWires}
           = {"ready" \o ToString(k) : k \in 0..(S - 1)}

\* valid<k> belongs to the k-th block of `blocks` in block order: the data
\* registers written under its WhenOp are those of the values of that block
NamedInOrder(blocks) ==
  \A b \in blocks :
    LET k == Cardinality({c \in blocks : c < b})
        outs == stageOuts(fnIn.op.region, b - 1)
    IN  /\ \E i \in ResetRegs :
             fnOut.module.regs[i].field = "valid" \o ToString(k)
        /\ {fnOut.module.body[i].dst : i \in DataConnects(k)}
             = {DataReg(fnIn.op.region, outs[j], getFirrtlType(I32)) :
                  j \in DOMAIN outs}

\* C22 as stated: the pipeline's sub-module has exactly one valid register
\* (reset value 0, on the module's clock and reset) and one ready wire for
\* each block of the region other than its entry block and the block
\* ending in the return, named valid0, ... and ready0, ... in block order.
C22_StagesExcludeEntry ==
  pc \in {"built", "clocked"} =>
    /\ OneValidAndReadyPer(NonReturnBlocks \ {1})
    /\ NamedInOrder(NonReturnBlocks \ {1})

\* C22, amended: the pipeline's sub-module has exactly one valid register
\* (reset value 0, on the module's clock and reset) and one ready wire for
\* each block of the region that does not end in the return, the region's
\* entry block included, named valid0, ... and ready0, ... in block order.
C22_ValidAndReadyPerStage ==
  pc \in {"built", "clocked"} =>
    /\ OneValidAndReadyPer(NonReturnBlocks)
    /\ NamedInOrder(NonReturnBlocks)

\* the sub-module of the three-block pipeline: valid0 and ready0 for the
\* entry block, valid1 and ready1 for the middle block
C22_Witness ==
  /\ pc = "built"
  /\ fnIn.op.region = SeedRegion
  /\ NonReturnBlocks = {1, 2}
  /\ Cardinality(ResetRegs) = 2 /\ Cardinality(StageWires) = 2
  /\ Cardinality(DataConnects(0)) = 6 /\ Cardinality(DataConnects(1)) = 4


\* the registers made without a reset value, and for each ConnectOp that
\* writes one of them the register's name with the connect's source
DataRegs == {fnOut.module.regs[i] : i \in DOMAIN fnOut.module.regs \ ResetRegs}
DataSources ==
  {<< fnOut.module.body[i].dst.field, fnOut.module.body[i].src >> :
     i \in {j \in DOMAIN fnOut.module.body : fnOut.module.body[j].dst \in DataRegs}}

\* the data registers of the test's pipeline: a, c and x = a + b leave the
\* entry block, y = a + x and z = c + x leave the middle block
SeedDataRegs ==
  LET m == fnOut.module
      type == getFirrtlType(I32)
      a == SubfieldOf(m, 0, "data")
      b == SubfieldOf(m, 1, "data")
      c == SubfieldOf(m, 2, "data")
      ra == Reg("data0.0", type)
      rc == Reg("data0.1", type)
      rx == Reg("data0.2", type)
  IN  /\ DataRegs = {ra, rc, rx, Reg("data1.0", type), Reg("data1.1", type)}
      /\ Cardinality(DOMAIN m.regs \ ResetRegs) = 5
      /\ DataSources = { << "data0.0", a >>, << "data0.1", c >>,
                         << "data0.2", Prim("add", type, a, b) >>,
                         << "data1.0", Prim("add", type, ra, rx) >>,
                         << "data1.1", Prim("add", type, rc, rx) >> }

-----------------------------------------------------------------------------
(* Properties of the data registers of a pipeline.                         *)

\* the values defined in block b (from 0) of the region: its arguments,
\* then the results of its operations
DefinedIn(b) ==
  LET blk == fnIn.op.region[b + 1]
  IN  [i \in 1..blk.nargs |-> PArg(b, i - 1)]
        \o [i \in DOMAIN blk.ops |-> POp(b, i - 1)]

\* the uses of the region: the value read and the block, from 0, of the
\* operation or terminator that reads it
UsesOf ==
  LET region == fnIn.op.region
  IN  UNION {{<< region[b].ops[i].a, b - 1 >> : i \in DOMAIN region[b].ops}
               \cup {<< region[b].ops[i].b, b - 1 >> : i \in DOMAIN region[b].ops}
               \cup {<< region[b].rets[i], b - 1 >> : i \in DOMAIN region[b].rets} :
             b \in DOMAIN region}

\* value v has a use in another block than the one that defines it
Crosses(v) == \E u \in UsesOf : u[1] = v /\ u[2] # v.b

\* the values of block b that cross, in the order of their definition
Crossing(b) == SelectSeq(DefinedIn(b), Crosses)

\* the name of the data register of the j-th crossing value of block b
DataRegName(b, j) ==
  "data" \o ToString(Cardinality({c \in NonReturnBlocks : c < b + 1}))
         \o "." \o ToString(j - 1)

RegisterOf(v) ==
  DataRegName(v.b, CHOOSE j \in DOMAIN Crossing(v.b) : Crossing(v.b)[j] = v)

RECURSIVE Reads(_, _)
\* what a use in block `from` of value v reads in the cycle fnIn.env: the
\* data register of v when v crosses out of a stage and the use is in
\* another block, the original value otherwise (the data of operand i of
\* the pipeline for argument i of the first block, the sum for a result)
Reads(v, from) ==
  IF v.b # from /\ v.b + 1 \in NonReturnBlocks /\ Crosses(v)
    THEN fnIn.env.named[RegisterOf(v)]
  ELSE IF v.v = "barg" THEN fnIn.env.ports[v.i + 1].data
  ELSE LET op == fnIn.op.region[v.b + 1].ops[v.i + 1]
       IN  ApplyPrim("add", Reads(op.a, v.b), Reads(op.b, v.b))

\* C24: every stage of a pipeline has exactly one data register for each
\* value it defines (block argument or result) that is used in another
\* block, and none for its other values; in every cycle a use of such a
\* value outside its block reads the register, a use inside its block
\* reads the original value, and what the flush logic loads into the
\* register is the original value.
C24_DataRegisters ==
  pc = "clocked" =>
    LET region == fnIn.op.region
        last == Len(region)
        numIns == Len(fnIn.op.operands)
    IN  /\ {r.field : r \in DataRegs}
             = UNION {{DataRegName(b - 1, j) : j \in DOMAIN Crossing(b - 1)} :
                        b \in NonReturnBlocks}
        /\ Cardinality(DOMAIN fnOut.module.regs \ ResetRegs)
             = Cardinality({v \in UNION {Range(DefinedIn(b - 1)) : b \in NonReturnBlocks} :
                              Crosses(v)})
        /\ \A b \in NonReturnBlocks :
             LET s == Cardinality({c \in NonReturnBlocks : c < b})
             IN  \A j \in DOMAIN Crossing(b - 1) :
                   \A i \in DataConnects(s) :
                     fnOut.module.body[i].dst.field = DataRegName(b - 1, j) =>
                       Eval(fnOut.module.body[i].src, fnIn.env)
                         = Reads(Crossing(b - 1)[j], b - 1)
        /\ \A k \in DOMAIN region[last].rets :
             Driven(fnOut.module.body, SubfieldOf(fnOut.module, numIns + k - 1, "data"),
                    fnIn.env)
               = Reads(region[last].rets[k], last - 1)

\* the pipeline whose first block's sum is read one and two blocks later,
\* its registers loaded with sums of the operands: the second stage's
\* register is loaded from the first stage's register, and the output
\* reads both registers
C24_Witness ==
  /\ pc = "clocked"
  /\ fnIn.op.region = SkipRegion
  /\ fnIn.env.named["data0.0"] = 5
  /\ fnIn.env.named["data1.0"] = 10
  /\ fnIn.env.ports[1].data = 0
  /\ ValidOf(1) = 0
  /\ fnOut.named["data1.0"] = 10
  /\ Driven(fnOut.module.body, SubfieldOf(fnOut.module, 2, "data"), fnIn.env) = 15


-----------------------------------------------------------------------------
(* Properties of the conversion of the function's return.                  *)

\* the positions of the ConnectOps made for the operation at position p
ConnectsFor(p) ==
  {q \in DOMAIN topBody :
     topBody[q].name = "firrtl.connect" /\ topBody[q].id = topBody[p].id}

\* the return at position p is erased and has, right after it, one
\* ConnectOp per operand: its k-th operand (from 0) into the top module's
\* port numIns + k, which is the port made for result k of the function
ReturnRouted(p) ==
  LET oldOp == topBody[p]
      numIns == Len(func.argTypes)
      ports == TopModuleOf(circuit).ports
  IN  /\ oldOp.erased
      /\ ConnectsFor(p) = (p + 1)..(p + Len(oldOp.operands))
      /\ \A k \in DOMAIN oldOp.operands :
           /\ topBody[p + k].operands
                = << Val("arg", numIns + k - 1, 0), oldOp.operands[k] >>
           /\ numIns + k \in DOMAIN ports
           /\ k <= Len(func.resTypes)
           /\ ports[numIns + k].name = "arg" \o ToString(numIns + k - 1)
           /\ Supported(func.resTypes[k]) => IsChannel(ports[numIns + k].type, TRUE)

\* C25: once the function's return is converted it is erased, and its k-th
\* operand is connected to the top-module port at position (number of
\* function arguments + k) and nowhere else by the conversion: an output
\* port, never an input, clock or reset port.
C25_ReturnRouting ==
  \A p \in DOMAIN topBody :
    (topBody[p].name = "handshake.return" /\ topBody[p].converted > 0) =>
      ReturnRouted(p)


\* the return of a function that returns the two results of a fork
C25_Witness ==
  /\ pc = "done"
  /\ errors = << >>
  /\ \E p \in DOMAIN topBody :
       /\ topBody[p].name = "handshake.return"
       /\ topBody[p].converted = 1
       /\ Len(topBody[p].operands) = 2
       /\ Len(func.argTypes) = 1
       /\ Cardinality(ConnectsFor(p)) = 2


-----------------------------------------------------------------------------
(* getSubModuleName applied to two operations.                             *)

\* operations of up to MaxPorts operands and results: forks and lazy forks,
\* compares of two predicates, buffers of one or two slots, sequential or
\* not, each without a control attribute or with one, false or true
NamedOps ==
  LET shapes == {T(d[1], d[2], Copies(I32, n), Copies(I32, m)) :
                   d \in {<< "handshake", "fork" >>, << "handshake", "lazy_fork" >>},
                   n \in 1..MaxPorts, m \in 1..MaxPorts}
                \cup {WithPred(T("std", "cmpi", Copies(I32, n), Copies(I1, m)), p) :
                        p \in {"eq", "slt"}, n \in 1..MaxPorts, m \in 1..MaxPorts}
                \cup {WithSlots(T("handshake", "buffer", Copies(I32, n),
                                  Copies(I32, m)), k, q) :
                        k \in 1..2, q \in BOOLEAN,
                        n \in 1..MaxPorts, m \in 1..MaxPorts}
  IN  {[t.op EXCEPT !.control = c,
                    !.operands = [k \in DOMAIN t.inTypes |-> Val("arg", k - 1, 0)]] :
         t \in shapes, c \in {"absent", "false", "true"}}

\* the same operation at another place of the function
Elsewhere(op) ==
  [op EXCEPT !.id = 2,
             !.operands = [k \in DOMAIN op.operands |-> Val("res", 1, k - 1)]]

InitNames ==
  /\ fnIn \in [a : {[op EXCEPT !.id = 1] : op \in NamedOps},
                b : {Elsewhere(op) : op \in NamedOps}]
  /\ fnOut = NullType
  /\ pc = "call"
  /\ func = NoFunc
  /\ circuit = << >>
  /\ topBody = << >>
  /\ walkPos = 0
  /\ pipelineIdx = 0
  /\ errors = << >>
  /\ ub = FALSE
  /\ nextInst = 0

ApplyGetSubModuleName ==
  /\ pc = "call"
  /\ fnOut' = [a |-> getSubModuleName(fnIn.a), b |-> getSubModuleName(fnIn.b)]
  /\ pc' = "returned"
  /\ UNCHANGED << func, circuit, topBody, walkPos, pipelineIdx, errors, ub,
                  nextInst, fnIn >>

SpecNames == InitNames /\ [][ApplyGetSubModuleName]_vars

\* what the signature is said to depend on: the mnemonic, the numbers of
\* operands and results, the predicate of a compare, the slots and the
\* sequential flag of a buffer, and whether the control attribute is true
Components(op) ==
  << op.name, NumOperands(op), NumResults(op),
     IF op.name = "std.cmpi" THEN op.pred ELSE "",
     IF op.name = "handshake.buffer" THEN << op.slots, op.seq >> ELSE << >>,
     op.control = "true" >>

\* C26: the signatures of two operations are the same string when the
\* operations agree in mnemonic, operand count, result count, compare
\* predicate, buffer slots and sequential flag, and control attribute,
\* wherever the operations stand, and different strings when they differ
\* in one of these (a fork and a lazy fork of equal arity included); a
\* signature is that of the operation without control attribute followed
\* by "_ctrl" exactly when the attribute is present and true.
C26_SignatureDeterminesComponents ==
  pc = "returned" =>
    /\ (Components(fnIn.a) = Components(fnIn.b)) = (fnOut.a = fnOut.b)
    /\ \A x \in {"a", "b"} :
         LET plain == getSubModuleName([fnIn[x] EXCEPT !.control = "absent"])
         IN  /\ fnOut[x] = plain \o (IF fnIn[x].control = "true" THEN "_ctrl" ELSE "")
             /\ plain # plain \o "_ctrl"

\* a fork and a lazy fork of equal arity, both on the control path, and
\* their two signatures
C26_Witness ==
  /\ pc = "returned"
  /\ fnIn.a.name = "handshake.fork" /\ fnIn.b.name = "handshake.lazy_fork"
  /\ NumOperands(fnIn.a) = 1 /\ NumOperands(fnIn.b) = 1
  /\ NumResults(fnIn.a) = 2 /\ NumResults(fnIn.b) = 2
  /\ fnIn.a.control = "true" /\ fnIn.b.control = "true"
  /\ fnOut.a = "handshake.fork_1ins_2outs_ctrl"
  /\ fnOut.b = "handshake.lazy_fork_1ins_2outs_ctrl"


-----------------------------------------------------------------------------
(* Properties of the sub-modules of pipelines.                             *)

\* the positions of the function's pipelines, and those already converted
PipelineOps ==
  {p \in DOMAIN topBody :
     topBody[p].original /\ topBody[p].name = "staticlogic.pipeline"}
ConvertedPipelines == {p \in PipelineOps : topBody[p].converted > 0}

\* the modules of the circuit made for pipelines
PipelineModules == {i \in DOMAIN circuit : circuit[i].kind = "pipeline"}

\* C27: every converted pipeline has a sub-module of its own, created for
\* it and named staticlogic.pipeline_<n>, n being the number of pipelines
\* before it in walk order (0 for the first), and its instance refers to
\* that name; this also holds when pipelines of the same body and arity
\* precede it, so the circuit has as many pipeline sub-modules as
\* converted pipelines.
C27_PipelinesNeverCached ==
  /\ Cardinality(PipelineModules) = Cardinality(ConvertedPipelines)
  /\ pc # "crashed" => pipelineIdx = Cardinality(ConvertedPipelines)
  /\ \A p \in ConvertedPipelines :
       LET n == Cardinality({q \in PipelineOps : q < p})
           own == {i \in PipelineModules : circuit[i].forOp = topBody[p].id}
       IN  /\ Cardinality(own) = 1
           /\ \A i \in own :
                circuit[i].name = "staticlogic.pipeline_" \o ToString(n)
           /\ \A q \in InstancesOf(topBody[p].id) :
                topBody[q].module = "staticlogic.pipeline_" \o ToString(n)
           /\ InstancesOf(topBody[p].id) # {}

\* two pipelines of the same body and arity, both converted
C27_Witness ==
  /\ pc = "done"
  /\ Cardinality(ConvertedPipelines) = 2
  /\ \A p \in PipelineOps : topBody[p].region = SeedRegion
  /\ \E i, j \in PipelineModules :
       /\ circuit[i].name = "staticlogic.pipeline_0"
       /\ circuit[j].name = "staticlogic.pipeline_1"
       /\ circuit[i].ports = circuit[j].ports


-----------------------------------------------------------------------------
(* Flushing a pipeline.                                                    *)

\* C28: when valid_in has been 0 and ready_in 1 for the last n clock
\* cycles, the valid registers of the first n stages are 0 after the clock
\* edge; so after S such cycles, S the number of stages, every valid
\* register is 0, and it stays 0 for as long as valid_in stays 0 and
\* ready_in stays 1.
C28_Flushable ==
  pc = "clocked" =>
    /\ \A s \in 0..(NumStages - 1) :
         s < fnIn.flushing => fnOut.named[ValidReg(s).field] = 0
    /\ fnIn.flushing >= NumStages =>
         \A s \in 0..(NumStages - 1) : fnOut.named[ValidReg(s).field] = 0

\* the three-block pipeline in its second cycle without input: the first
\* stage is empty already, the second still holds a token and gives it up
C28_Witness ==
  /\ pc = "clocked"
  /\ fnIn.op.region = SeedRegion
  /\ NumStages = 2
  /\ fnIn.flushing = 2
  /\ ValidOf(0) = 0 /\ ValidOf(1) = 1
  /\ fnOut.named["valid0"] = 0 /\ fnOut.named["valid1"] = 0


-----------------------------------------------------------------------------
(* The sub-module of a signed less-than compare.                           *)

\* the builder has returned for a cmpi slt of two operands and one result
CmpISltBuilt ==
  /\ pc = "returned"
  /\ fnIn.op.name = "std.cmpi"
  /\ fnIn.op.pred = "slt"
  /\ NumOperands(fnIn.op) = 2
  /\ NumResults(fnIn.op) = 1

\* the channel of the result, port 2, is an output with a data field of
\* one bit, unsigned
ResultIsOneBit ==
  /\ Len(fnOut.module.ports) = 3
  /\ IsChannel(fnOut.module.ports[3].type, TRUE)
  /\ Unflipped(getElement(fnOut.module.ports[3].type, "data")) = UIntType(1)

\* C29 as stated: the sub-module of a cmpi slt with two operands and one
\* result is named cmpi_2ins_1outs_slt and its result channel has a 1-bit
\* unsigned data field.
C29_CmpISltNamedCmpi ==
  CmpISltBuilt =>
    /\ fnOut.module.name = "cmpi_2ins_1outs_slt"
    /\ ResultIsOneBit

\* C29, amended: the sub-module of a cmpi slt with two operands and one
\* result is named std.cmpi_2ins_1outs_slt, the operation's name with its
\* dialect, and its result channel has a 1-bit unsigned data field.
C29_CmpISltSubModule ==
  CmpISltBuilt =>
    /\ fnOut.module.name = "std.cmpi_2ins_1outs_slt"
    /\ ResultIsOneBit

\* the sub-module of a cmpi slt, built without undefined behaviour
C29_Witness ==
  /\ CmpISltBuilt
  /\ ~fnOut.ub
  /\ fnOut.module.kind = "sub"
  /\ fnOut.module.body # << >>


-----------------------------------------------------------------------------
(* extractSubfields applied to a sub-module's ports.                       *)

\* the sub-modules given to extractSubfields: up to MaxPorts ports, each
\* the channel of an operand or of a result, a clock or a reset
InitSubfields ==
  /\ fnIn \in [module :
                 {FModuleOp("sub", [i \in DOMAIN types |->
                                      ModulePort("arg" \o ToString(i - 1), types[i])],
                            "sub", 1) :
                    types \in SeqsUpTo({getBundleType(t, flip) :
                                          t \in {I32, I1, IndexType, NoneType},
                                          flip \in BOOLEAN}
                                         \cup {ClockType, UIntType(1)}, MaxPorts)}]
  /\ fnOut = NullType
  /\ pc = "call"
  /\ func = NoFunc
  /\ circuit = << >>
  /\ topBody = << >>
  /\ walkPos = 0
  /\ pipelineIdx = 0
  /\ errors = << >>
  /\ ub = FALSE
  /\ nextInst = 0

ApplyExtractSubfields ==
  /\ pc = "call"
  /\ fnOut' = extractSubfields(fnIn.module)
  /\ pc' = "returned"
  /\ UNCHANGED << func, circuit, topBody, walkPos, pipelineIdx, errors, ub,
                  nextInst, fnIn >>

SpecSubfields == InitSubfields /\ [][ApplyExtractSubfields]_vars

\* C30: the port list has one entry per port of the sub-module, in port
\* order; the entry of a bundle port holds the subfield valid at index 0,
\* ready at index 1 and, only when the bundle has a data field, data at
\* index 2, each of the type the field has in the port type, flip
\* included; the entry of a clock port or of a 1-bit port holds the port
\* itself and nothing else.
C30_ExtractSubfields ==
  pc = "returned" =>
    LET ports == fnIn.module.ports
    IN  /\ Len(fnOut) = Len(ports)
        /\ \A p \in DOMAIN ports :
             LET t == ports[p].type
                 field(n) == SubfieldNode(p - 1, n, getElement(t, n))
             IN  IF t.k = "Bundle"
                   THEN /\ Len(fnOut[p]) = (IF HasData(t) THEN 3 ELSE 2)
                        /\ fnOut[p][1] = field("valid")
                        /\ fnOut[p][2] = field("ready")
                        /\ HasData(t) => fnOut[p][3] = field("data")
                        /\ \A j \in DOMAIN fnOut[p] :
                             fnOut[p][j].type = t.elements[j].type
                 ELSE fnOut[p] = << PortNode(p - 1, t) >>

\* a sub-module with the channel of a result without data and a clock
C30_Witness ==
  /\ pc = "returned"
  /\ Len(fnIn.module.ports) = 2
  /\ fnIn.module.ports[1].type = getBundleType(NoneType, TRUE)
  /\ fnIn.module.ports[2].type = ClockType
  /\ Len(fnOut[1]) = 2 /\ Len(fnOut[2]) = 1
  /\ fnOut[1][1].type = [k |-> "Flip", of |-> UIntType(1)]

-----------------------------------------------------------------------------
(* Properties of the instances.                                            *)

\* C31: the type of every instance is a bundle with one element per port
\* of the sub-module it refers to, named arg0, arg1, ... in port order,
\* clock and reset included as its last elements when the sub-module has
\* them, the type of each element being the flip of the port's type.
C31_InstanceType ==
  \A q \in DOMAIN topBody :
    topBody[q].name = "firrtl.instance" =>
      LET ports == ModuleNamed(topBody[q].module).ports
          type == topBody[q].type
      IN  /\ type.k = "Bundle"
          /\ Len(type.elements) = Len(ports)
          /\ \A i \in DOMAIN ports :
               /\ type.elements[i].name = "arg" \o ToString(i - 1)
               /\ type.elements[i].type = FlipTypeGet(ports[i].type)

\* the instance of a pipeline's sub-module: three operands, a result, the
\* clock and the reset
C31_Witness ==
  \E q \in DOMAIN topBody :
    /\ topBody[q].name = "firrtl.instance"
    /\ topBody[q].module = "staticlogic.pipeline_0"
    /\ Len(topBody[q].type.elements) = 6
    /\ topBody[q].type.elements[5]
         = BundleElement("arg4", [k |-> "Flip", of |-> ClockType])
    /\ topBody[q].type.elements[1].type = getBundleType(I32, TRUE)

-----------------------------------------------------------------------------
(* Properties of the converted pipeline's body. *)

\* the position in the flattened body of operation i (from 1) of block b
\* (from 1) of the region
PositionOf(b, i) ==
  LET region == fnIn.op.region
      RECURSIVE Before(_)
      Before(c) == IF c = 0 THEN 0 ELSE Len(region[c].ops) + Before(c - 1)
  IN  Before(b - 1) + i

\* the connects of the body into the data subfield of port p (from 0)
ConnectsInto(p) ==
  {i \in DOMAIN fnOut.module.body :
     fnOut.module.body[i].dst = SubfieldOf(fnOut.module, p, "data")}

\* operand `read` of the node made for an operation of block b is the use
\* of value v: a use of argument k of the region's first block in that
\* block is the data subfield of port k
ReadsPort(v, node) == v.v = "barg" /\ v.b = 0 => node = SubfieldOf(fnOut.module, v.i, "data")

-----------------------------------------------------------------------------
(* Properties of the control path and the data path of the builders. *)

DataPathOps ==
  {"handshake.branch", "handshake.conditional_branch", "handshake.fork",
   "handshake.lazy_fork", "handshake.control_merge"}

IsDataSubfield(node) == node.op = "subfield" /\ node.field = "data"

\* the ConnectOps of the sub-module that write or read a data subfield
DataPathConnects ==
  {i \in DOMAIN fnOut.module.body :
     \/ IsDataSubfield(fnOut.module.body[i].dst)
     \/ IsDataSubfield(fnOut.module.body[i].src)}

\* the ConnectOps of a control merge that write a constant into the data
\* of its last port, the index of the chosen input
IndexConnects ==
  {i \in DOMAIN fnOut.module.body :
     /\ fnIn.op.name = "handshake.control_merge"
     /\ fnOut.module.body[i].dst
          = SubfieldOf(fnOut.module, Len(fnOut.module.ports) - 1, "data")
     /\ fnOut.module.body[i].src.op = "constant"}

\* the result ports, from 1, that carry the operand's token in this cycle,
\* each with the operand port it comes from
SelectedResults ==
  LET N == NumOperands(fnIn.op)
      R == NumResults(fnIn.op)
  IN  CASE fnIn.op.name = "handshake.conditional_branch" ->
             IF fnIn.env[1].valid = 1
               THEN {<< IF fnIn.env[1].data = 1 THEN 3 ELSE 4, 2 >>}
               ELSE {}
        [] fnIn.op.name = "handshake.control_merge" ->
             IF ValidInputs(1, N) # {}
               THEN {<< N + 1, Lowest(ValidInputs(1, N)) >>}
               ELSE {}
        [] OTHER -> {<< r, 1 >> : r \in (N + 1)..(N + R)}

\* the operation of fnIn with the other value of the control attribute
OtherVariant ==
  [fnIn.op EXCEPT !.control = IF fnIn.op.control = "true" THEN "false" ELSE "true"]

\* C33: for branch, conditional branch, fork, lazy fork and control merge
\* the data path of the operand is connected if and only if the operation
\* is not control-only: a control-only operation's sub-module has no
\* connect to or from a data subfield other than the constant index a
\* control merge writes to the data of its index result, a non-control
\* operation's sub-module connects the selected result's data from the
\* operand's data, and the two variants of an operator of equal arity have
\* different signatures, so that the cache never serves one for the other.
C33_DataPathIffNotControl ==
  (pc = "returned" /\ fnIn.op.name \in DataPathOps) =>
    LET m == fnOut.module
    IN  /\ isControl(fnIn.op) => DataPathConnects = IndexConnects
        /\ ~isControl(fnIn.op) =>
             /\ \A i \in DataPathConnects \ IndexConnects :
                  /\ IsDataSubfield(m.body[i].dst)
                  /\ IsDataSubfield(m.body[i].src)
                  /\ m.body[i].dst.port >= NumOperands(fnIn.op)
                  /\ m.body[i].src.port < NumOperands(fnIn.op)
             /\ \A sel \in SelectedResults :
                  /\ fnOut.out[sel[1]].data = fnIn.env[sel[2]].data
                  /\ \E i \in Drivers(m, sel[1] - 1, "data") :
                       m.body[i].src = SubfieldOf(m, sel[2] - 1, "data")
        /\ m.name = getSubModuleName(fnIn.op)
        /\ m.name # getSubModuleName(OtherVariant)
        /\ IndexConnects # {} => fnIn.op.name = "handshake.control_merge"

\* a conditional branch with data whose control is valid and 0: the second
\* result carries the operand's data, 2
C33_Witness ==
  /\ pc = "returned"
  /\ fnIn.op.name = "handshake.conditional_branch"
  /\ ~isControl(fnIn.op)
  /\ fnIn.env[1].valid = 1 /\ fnIn.env[1].data = 0
  /\ fnIn.env[2].data = 2
  /\ fnOut.out[4].data = 2
  /\ SelectedResults = {<< 4, 2 >>}
  /\ fnOut.module.name # getSubModuleName(OtherVariant)

\* C33 as stated: a control-only operation's sub-module contains no connect
\* to or from a data subfield.
C33_ControlOnlyHasNoDataConnect ==
  (pc = "returned" /\ fnIn.op.name \in DataPathOps /\ isControl(fnIn.op)) =>
    DataPathConnects = {}

-----------------------------------------------------------------------------
(* Properties of the port types of the instantiated sub-modules. *)

\* the type a value has in the function given to the pass
SourceTypeOf(v) ==
  IF v.v = "arg" THEN func.argTypes[v.i + 1]
  ELSE func.body[v.i].resTypes[v.j + 1]

\* the ports of the sub-module of instance q agree with the types of the
\* operands and results of the operation at position p of the function
PortTypesFollow(p, q) ==
  LET oldOp == func.body[topBody[p].id]
      ports == ModuleNamed(topBody[q].module).ports
      numIns == NumOperands(oldOp)
  IN  /\ Len(ports) >= numIns + NumResults(oldOp)
      /\ \A k \in DOMAIN oldOp.operands :
           ports[k].type = getBundleType(SourceTypeOf(oldOp.operands[k]), FALSE)
      /\ \A k \in DOMAIN oldOp.resTypes :
           ports[numIns + k].type = getBundleType(oldOp.resTypes[k], TRUE)

\* C34: for every instance the driver creates, each port type of the
\* referenced sub-module equals the bundle type obtained from the
\* corresponding operand or result type of the instantiated operation,
\* also when the sub-module was found in the cache; stated for the
\* functions that are lowered without error and are not named like a
\* sub-module.
C34_PortTypesMatchOperands ==
  (func.name = "ops" /\ errors = << >> /\ ~ub) =>
    \A p \in ConvertibleOps : \A q \in InstancesOf(topBody[p].id) :
      PortTypesFollow(p, q)

-----------------------------------------------------------------------------
(* Properties of the alignment of the pipeline's values. *)

RECURSIVE RegistersBefore(_)
\* the number of data registers a read of this node goes through: a
\* register counts one more than the value loaded into it
RegistersBefore(node) ==
  IF node.op # "reg" THEN 0
  ELSE LET loads == {i \in DOMAIN fnOut.module.body :
                       fnOut.module.body[i].dst.op = "reg"
                         /\ fnOut.module.body[i].dst.field = node.field}
       IN  IF loads = {} THEN 1
           ELSE 1 + RegistersBefore(fnOut.module.body[CHOOSE i \in loads : TRUE].src)

\* C35: in a generated pipeline every value read in a block (a stage or
\* the return block) and defined in an earlier stage reaches its reader
\* through exactly as many data registers as there are stage boundaries
\* between the two blocks, so that the operands of one operation belong to
\* the same token.
C35_OneRegisterPerBoundary ==
  pc \in {"built", "clocked"} =>
    \A b \in DOMAIN fnIn.op.region : \A i \in DOMAIN fnIn.op.region[b].ops :
      LET node == fnOut.module.nodes[PositionOf(b, i)]
          op == fnIn.op.region[b].ops[i]
      IN  /\ op.a.b < b - 1 => RegistersBefore(node.args[1]) = (b - 1) - op.a.b
          /\ op.b.b < b - 1 => RegistersBefore(node.args[2]) = (b - 1) - op.b.b

-----------------------------------------------------------------------------
(* Properties of the pipeline's port handshake. *)

\* the ConnectOps of the sub-module that drive the wire of this name
WireDrivers(name) ==
  {i \in DOMAIN fnOut.module.body :
     fnOut.module.body[i].dst.op = "wire" /\ fnOut.module.body[i].dst.field = name}

\* C36: in a generated pipeline sub-module valid_in is driven from the
\* valid signals of the input ports, every input port's ready is driven
\* from ready0, the output port's valid is driven from the last stage's
\* valid register, and ready_in is driven from the output port's ready;
\* neither valid_in nor ready_in is an undriven wire.
C36_PortHandshakeTied ==
  pc \in {"built", "clocked"} =>
    LET m == fnOut.module
        numIns == Len(fnIn.op.operands)
    IN  /\ WireDrivers("valid_in") # {}
        /\ WireDrivers("ready_in") # {}
        /\ \A i \in WireDrivers("ready_in") :
             m.body[i].src = SubfieldOf(m, numIns, "ready")
        /\ \A p \in 0..(numIns - 1) :
             /\ Drivers(m, p, "ready") # {}
             /\ \A i \in Drivers(m, p, "ready") : m.body[i].src = ReadyWire(0)
        /\ Drivers(m, numIns, "valid") # {}
        /\ NumStages > 0 =>
             \A i \in Drivers(m, numIns, "valid") :
               m.body[i].src.field = ValidReg(NumStages - 1).field

-----------------------------------------------------------------------------
(* Properties of the tokens of the pipeline. *)

RECURSIVE SumOver(_, _)
SumOver(named, stages) ==
  IF stages = {} THEN 0
  ELSE LET s == CHOOSE x \in stages : TRUE
       IN  named["valid" \o ToString(s)] + SumOver(named, stages \ {s})

\* the number of stages whose valid register is 1
TokensIn(named) == SumOver(named, 0..(NumStages - 1))

\* a token enters the first stage, a token leaves the last stage
TokenEnters == NumStages > 0 /\ fnIn.env.named["valid_in"] = 1 /\ ReadyOf(0) = 1
TokenLeaves ==
  NumStages > 0 /\ ValidOf(NumStages - 1) = 1 /\ fnIn.env.named["ready_in"] = 1

\* C37: tokens are conserved in a generated pipeline: all valid registers
\* are 0 after reset, and at every clock edge the number of stages with
\* valid 1 changes by exactly (1 if valid_in and ready0, else 0) minus (1
\* if the last valid and ready_in, else 0), for every sequence of valid_in
\* and ready_in values.
C37_TokensConserved ==
  /\ pc = "built" =>
       /\ TokensIn(fnOut.named) = 0
       /\ \A s \in 0..(NumStages - 1) :
            /\ "valid" \o ToString(s) \in DOMAIN fnOut.named
            /\ fnOut.named["valid" \o ToString(s)] = 0
  /\ pc = "clocked" =>
       /\ \A s \in 0..(NumStages - 1) : fnOut.named["valid" \o ToString(s)] \in 0..1
       /\ TokensIn(fnOut.named) + (IF TokenLeaves THEN 1 ELSE 0)
            = TokensIn(fnIn.env.named) + (IF TokenEnters THEN 1 ELSE 0)

\* both stages of the test's pipeline hold a token, one token enters and
\* one leaves at the same edge
C37_Witness ==
  /\ pc = "clocked"
  /\ fnIn.op.region = SeedRegion
  /\ TokensIn(fnIn.env.named) = 2
  /\ TokenEnters /\ TokenLeaves
  /\ TokensIn(fnOut.named) = 2

-----------------------------------------------------------------------------
(* Properties of the drivers of the combinational sub-modules. *)

\* in the cycle fnIn.env port p, from 1, of the sub-module has every signal
\* the sub-module is to drive: ready for an operand, valid and, where the
\* channel has one, data for a result
PortDriven(p) ==
  IF p <= NumOperands(fnIn.op) THEN fnOut.out[p].ready # Undriven
  ELSE /\ fnOut.out[p].valid # Undriven
       /\ getElement(fnOut.module.ports[p].type, "data") # NullType =>
            fnOut.out[p].data # Undriven

\* C38: in every combinational sub-module that has a logic builder, for
\* every combination of input values each operand ready, each result valid
\* and each result data has a connect that takes effect.
C38_AlwaysDriven ==
  (pc = "returned" /\ ~fnOut.ub) =>
    \A p \in DOMAIN fnOut.module.ports : PortDriven(p)

-----------------------------------------------------------------------------
(* Properties of the channels between the instances of the top module. *)

\* the channels of the top module: its ConnectOps, each from the bundle
\* that gives valid and takes ready to the bundle that takes valid and
\* gives ready
TopChannels ==
  {q \in DOMAIN topBody : topBody[q].name = "firrtl.connect" /\ ~topBody[q].erased}

ChannelInto(inst, p) ==
  {q \in TopChannels : topBody[q].operands[1] = Val("sub", inst, p)}
ChannelFrom(inst, p) ==
  {q \in TopChannels : topBody[q].operands[2] = Val("sub", inst, p)}

\* what port p, from 0, of instance inst sees on its channel
PortSignals(val, inst, p) ==
  LET attached == ChannelInto(inst, p) \cup ChannelFrom(inst, p)
  IN  IF attached = {} THEN [valid |-> 0, ready |-> 0, data |-> 0]
      ELSE LET q == CHOOSE c \in attached : TRUE
           IN  [valid |-> val[q].valid, ready |-> val[q].ready, data |-> 0]

\* the sub-module of the instance at position q, given the signals of
\* `val` at its ports, drives its side of each channel as `val` has it
InstanceConsistent(val, q) ==
  LET inst == topBody[q].inst
      m == ModuleNamed(topBody[q].module)
      out == Cycle(m, [ports |-> [p \in DOMAIN m.ports |->
                                    PortSignals(val, inst, p - 1)],
                       named |-> << >>, body |-> m.body])
  IN  \A p \in DOMAIN m.ports :
        /\ \A c \in ChannelInto(inst, p - 1) : out[p].ready = val[c].ready
        /\ \A c \in ChannelFrom(inst, p - 1) : out[p].valid = val[c].valid

\* the values of valid and ready on all channels that every instance
\* agrees with, when the function's arguments are valid as vin says and
\* its results ready as rout says
Consistent(vin, rout) ==
  {val \in [TopChannels -> [valid : 0..1, ready : 0..1]] :
     /\ \A c \in TopChannels :
          /\ topBody[c].operands[2].v = "arg" => val[c].valid = vin
          /\ topBody[c].operands[1].v = "arg" => val[c].ready = rout
     /\ \A q \in DOMAIN topBody :
          topBody[q].name = "firrtl.instance" => InstanceConsistent(val, q)}

\* a result of a fork or lazy fork instance is connected to an operand of
\* a binary operation's or join's instance
ForkFeedsConsumer ==
  \E f, g \in DOMAIN topBody : \E c \in TopChannels :
    /\ topBody[f].name = "firrtl.instance" /\ topBody[g].name = "firrtl.instance"
    /\ func.body[topBody[f].id].name \in {"handshake.fork", "handshake.lazy_fork"}
    /\ func.body[topBody[g].id].name \in {"std.addi", "handshake.join"}
    /\ topBody[c].operands[2].v = "sub" /\ topBody[c].operands[2].i = topBody[f].inst
    /\ topBody[c].operands[1].v = "sub" /\ topBody[c].operands[1].i = topBody[g].inst

\* C39: when a result channel of a fork or lazy-fork sub-module feeds an
\* operand of a binary or join sub-module in the top module, valid and
\* ready of the channel do not depend on each other within a cycle: for
\* every valuation of the remaining inputs exactly one value of the
\* channels' valid and ready is consistent, and a token offered to the
\* fork while the consumer's result is ready is transferred in that cycle.
C39_NoCombinationalLoop ==
  (pc = "done" /\ errors = << >> /\ ~ub /\ func.name = "ops" /\ ForkFeedsConsumer) =>
    \A vin, rout \in 0..1 :
      /\ Cardinality(Consistent(vin, rout)) = 1
      /\ (vin = 1 /\ rout = 1) =>
           \A val \in Consistent(vin, rout) : \A c \in TopChannels :
             val[c].valid = 1 /\ val[c].ready = 1

-----------------------------------------------------------------------------
(* Properties of the subfields the builders read. *)

\* the subfields the builder of fnIn.op reads that its port list does not
\* have: a third subfield of a port without data, or a port past the last
ReadsMissingSubfield ==
  GarbageNode \in BuildLogic(fnIn.op, extractSubfields(fnOut.module)).reads

\* C40: every logic builder reads the data subfield (index 2 of a port's
\* subfield list) only for ports whose bundle has a data field, and indexes
\* only ports that exist for the operation's operand and result counts:
\* lowering an operation whose channel is of type none never indexes a
\* missing third subfield.
C40_NoMissingSubfield ==
  pc \in {"returned", "crashed"} => ~ReadsMissingSubfield

====
